---------------------------- MODULE Spec2Model ----------------------------
(***************************************************************************)
(* Model of the geometry core of AGCube: the cube slicer of Scene4.tsx     *)
(* (computeSlice, computeArrowSlices), the polytope catalog of             *)
(* polytopes4d.ts and the 4D rotations of Scene2.tsx.                      *)
(*                                                                         *)
(* Numbers.  The slicer works on JavaScript doubles.  Here a length is an  *)
(* integer count of units of epsilon/10 (One units make the length 1.0,    *)
(* epsilon = 0.001 is 10 units), and every product and quotient is rounded *)
(* to the nearest unit, as a double rounds to the nearest double.  An      *)
(* angle is an entry of the table Angles, which holds its cosine and sine  *)
(* in the same units.                                                      *)
(*                                                                         *)
(* The catalog's coordinates are numbers (a + b * sqrt 5) / Den, kept      *)
(* exactly as the pair <<a, b>>; a squared length is such a pair over      *)
(* Den^2.  scaleToRadius multiplies by target / maxR, a square root, so a  *)
(* scaled vertex list is kept as its coordinates before scaling together   *)
(* with the square of the factor.  Comparisons are decided exactly.        *)
(***************************************************************************)
EXTENDS Integers, Sequences, FiniteSets, TLC

VARIABLES
    pc,            \* "input": the props are set, "rendered": the memo ran
    rotation,      \* prop rotation: [rx, ry, rz], each an index into Angles
    zSlice,        \* prop z: the slice coordinate, in units
    sliceResult,   \* the SliceResult of computeSlice(z, rotation)
    showArrows,    \* prop showArrows: the face markers are drawn
    arrowSlices,   \* the ArrowSlice list of computeArrowSlices(z, rotation)
    written,       \* the static tables that an in-place operation has acted on
    renders,       \* how many times the memos have run
    stage,         \* polytopes4d.ts: the polytope under construction, or "loaded"
    POLYTOPES_4D,  \* the catalog entries made so far
    visited,       \* how many raw vertices dedup has been through
    result,        \* dedup's result so far
    turn,          \* Scene2.tsx: "start", "rotated" or "restored"
    v4,            \* a 4D point [x, y, z, w], in units
    plane,         \* "XW", "YW" or "ZW"
    angle,         \* an index into Angles
    rotated,       \* the point rotated by the angle in the plane
    restored,      \* the rotated point rotated by minus the angle
    callee,        \* the function applied to the argument, or "none"
    argument,      \* the argument of the call
    returned       \* what the call returned

sliceVars == <<pc, rotation, zSlice, sliceResult, showArrows, arrowSlices, written, renders>>

catalogVars == <<stage, POLYTOPES_4D, visited, result>>

rotateVars == <<turn, v4, plane, angle, rotated, restored>>

callVars == <<callee, argument, returned>>

vars == <<pc, rotation, zSlice, sliceResult, showArrows, arrowSlices, written, renders,
          stage, POLYTOPES_4D, visited, result,
          turn, v4, plane, angle, rotated, restored,
          callee, argument, returned>>

---------------------------------------------------------------------------
(* Fixed-point arithmetic *)

epsilon == 10

One == 1000 * epsilon

Half == One \div 2

Abs(a) == IF a < 0 THEN -a ELSE a

\* a / b rounded to the nearest integer (halves upwards), b # 0
RoundDiv(a, b) == IF b > 0 THEN (2 * a + b) \div (2 * b)
                           ELSE (2 * (-a) + (-b)) \div (2 * (-b))

\* the product of two lengths, as a length
Mul(a, b) == RoundDiv(a * b, One)

\* the entries of Angles that the inputs range over
NAngles == 5

\* the offsets around a corner's Z that the slice coordinate ranges over,
\* in steps of epsilon / 2
MaxOffset == 3

\* cos and sin of the angles the rotation is drawn from: 0, 90 degrees,
\* atan(4/3), -0.0009 rad, 45 degrees, 0.0006 rad, 10 degrees
Angles == << [cos |-> One,  sin |-> 0],
             [cos |-> 0,    sin |-> One],
             [cos |-> 6000, sin |-> 8000],
             [cos |-> One,  sin |-> -9],
             [cos |-> 7071, sin |-> 7071],
             [cos |-> One,  sin |-> 6],
             [cos |-> 9848, sin |-> 1736] >>

---------------------------------------------------------------------------
(* Scene4.tsx: the static tables *)

C_Right  == "#f39494"
C_Left   == "#c40707"
C_Top    == "#57f157"
C_Bottom == "#048004"
C_Back   == "#00008b"
C_Front  == "#7185f1"

\* corners of the unit cube; corner i of the code is CUBE_VERTICES[i + 1]
CUBE_VERTICES == << <<0, 0, 0>>, <<1, 0, 0>>, <<1, 1, 0>>, <<0, 1, 0>>,
                    <<0, 0, 1>>, <<1, 0, 1>>, <<1, 1, 1>>, <<0, 1, 1>> >>

CUBE_FACES == << [vertices |-> <<0, 1, 2, 3>>, color |-> C_Back],
                 [vertices |-> <<4, 5, 6, 7>>, color |-> C_Front],
                 [vertices |-> <<0, 1, 5, 4>>, color |-> C_Bottom],
                 [vertices |-> <<2, 3, 7, 6>>, color |-> C_Top],
                 [vertices |-> <<0, 3, 7, 4>>, color |-> C_Left],
                 [vertices |-> <<1, 2, 6, 5>>, color |-> C_Right] >>

Includes(seq, x) == \E i \in 1..Len(seq) : seq[i] = x

\* a variant that stops at the first face found
getEdgeFaces_First(v1, v2) ==
    LET hits == {f \in 1..Len(CUBE_FACES) :
                    Includes(CUBE_FACES[f].vertices, v1)
                    /\ Includes(CUBE_FACES[f].vertices, v2)}
    IN  IF hits = {} THEN <<>>
        ELSE <<CUBE_FACES[CHOOSE f \in hits : \A g \in hits : f <= g].color>>

\* the colors of the faces that hold both v1 and v2, in CUBE_FACES order
getEdgeFaces(v1, v2) ==
    LET hit(f) == Includes(CUBE_FACES[f].vertices, v1)
                  /\ Includes(CUBE_FACES[f].vertices, v2)
        RECURSIVE upto(_)
        upto(n) == IF n = 0 THEN <<>>
                   ELSE upto(n - 1) \o (IF hit(n) THEN <<CUBE_FACES[n].color>> ELSE <<>>)
    IN  upto(Len(CUBE_FACES))

CubeEdge(a, b) == [v1 |-> a, v2 |-> b, faces |-> getEdgeFaces(a, b)]

CUBE_EDGES == << CubeEdge(0, 1), CubeEdge(1, 2), CubeEdge(2, 3), CubeEdge(3, 0),
                 CubeEdge(4, 5), CubeEdge(5, 6), CubeEdge(6, 7), CubeEdge(7, 4),
                 CubeEdge(0, 4), CubeEdge(1, 5), CubeEdge(2, 6), CubeEdge(3, 7) >>

---------------------------------------------------------------------------
(* Scene4.tsx: rotatePoint *)

\* a variant with the rows and the columns exchanged
EulerMatrix_Transposed(rot) ==
    LET a == Angles[rot[1]].cos  b == Angles[rot[1]].sin
        c == Angles[rot[2]].cos  d == Angles[rot[2]].sin
        e == Angles[rot[3]].cos  f == Angles[rot[3]].sin
        ae == Mul(a, e)  af == Mul(a, f)  be == Mul(b, e)  bf == Mul(b, f)
    IN  << << Mul(c, e),   af + Mul(be, d),  bf - Mul(ae, d) >>,
           << -Mul(c, f),  ae - Mul(bf, d),  be + Mul(af, d) >>,
           << d,           -Mul(b, c),       Mul(a, c) >> >>

\* the matrix of THREE.Euler(rx, ry, rz, 'XYZ'), which is Rx * Ry * Rz
EulerMatrix(rot) ==
    LET a == Angles[rot[1]].cos  b == Angles[rot[1]].sin
        c == Angles[rot[2]].cos  d == Angles[rot[2]].sin
        e == Angles[rot[3]].cos  f == Angles[rot[3]].sin
        ae == Mul(a, e)  af == Mul(a, f)  be == Mul(b, e)  bf == Mul(b, f)
    IN  << << Mul(c, e),        -Mul(c, f),       d >>,
           << af + Mul(be, d),  ae - Mul(bf, d),  -Mul(b, c) >>,
           << bf - Mul(ae, d),  be + Mul(af, d),  Mul(a, c) >> >>

\* point (in units) turned by rot about center
rotatePoint(point, rot, center) ==
    LET m == EulerMatrix(rot)
        vx == point[1] - center[1]
        vy == point[2] - center[2]
        vz == point[3] - center[3]
        row(r) == RoundDiv(m[r][1] * vx + m[r][2] * vy + m[r][3] * vz, One)
    IN  << row(1) + center[1], row(2) + center[2], row(3) + center[3] >>

center == << Half, Half, Half >>

\* CUBE_VERTICES.map(v => rotatePoint(v, rotation, center))
RotatedVertex(i, rot) ==
    rotatePoint(<< CUBE_VERTICES[i][1] * One,
                   CUBE_VERTICES[i][2] * One,
                   CUBE_VERTICES[i][3] * One >>, rot, center)

RotatedVertices(rot) ==
    << RotatedVertex(1, rot), RotatedVertex(2, rot), RotatedVertex(3, rot),
       RotatedVertex(4, rot), RotatedVertex(5, rot), RotatedVertex(6, rot),
       RotatedVertex(7, rot), RotatedVertex(8, rot) >>

---------------------------------------------------------------------------
(* Scene4.tsx: computeSlice *)

\* atan2(dy, dx) lies in (-pi, pi); Quadrant orders the four ranges
\* (-pi, 0), {0}, (0, pi), {pi} that an angle can fall in
Quadrant(dx, dy) == IF dy < 0 THEN 0
                    ELSE IF dy = 0 /\ dx >= 0 THEN 1
                    ELSE IF dy > 0 THEN 2
                    ELSE 3

\* atan2(a.y - cy, a.x - cx) - atan2(b.y - cy, b.x - cx) < 0
AngleLess(a, b, cx, cy) ==
    LET ax == a.x - cx  ay == a.y - cy
        bx == b.x - cx  by == b.y - cy
        qa == Quadrant(ax, ay)
        qb == Quadrant(bx, by)
    IN  IF qa # qb THEN qa < qb
        ELSE IF qa \in {1, 3} THEN FALSE
        ELSE ax * by - ay * bx > 0

\* Array.prototype.sort is stable: p goes after the elements it does not precede
RECURSIVE InsertByAngle(_, _, _, _)
InsertByAngle(sorted, p, cx, cy) ==
    IF sorted = <<>> THEN <<p>>
    ELSE IF AngleLess(p, sorted[Len(sorted)], cx, cy)
         THEN InsertByAngle(SubSeq(sorted, 1, Len(sorted) - 1), p, cx, cy)
              \o <<sorted[Len(sorted)]>>
         ELSE Append(sorted, p)

RECURSIVE SortPrefix(_, _, _, _)
SortPrefix(pts, n, cx, cy) ==
    IF n = 0 THEN <<>>
    ELSE InsertByAngle(SortPrefix(pts, n - 1, cx, cy), pts[n], cx, cy)

RECURSIVE SumX(_, _)
SumX(pts, n) == IF n = 0 THEN 0 ELSE SumX(pts, n - 1) + pts[n].x

RECURSIVE SumY(_, _)
SumY(pts, n) == IF n = 0 THEN 0 ELSE SumY(pts, n - 1) + pts[n].y

\* a variant that leaves the points in the order found
SortByAngle_Unsorted(pts) == pts

\* the points ordered by their angle around their centroid
SortByAngle(pts) ==
    LET cx == RoundDiv(SumX(pts, Len(pts)), Len(pts))
        cy == RoundDiv(SumY(pts, Len(pts)), Len(pts))
    IN  SortPrefix(pts, Len(pts), cx, cy)

\* a variant whose comparison with the slice coordinate admits epsilon itself
FaceOnPlane_Inclusive(vertices, rv, zs) ==
    LET faceZ == rv[vertices[1] + 1][3]
        allSameZ == \A k \in 1..Len(vertices) :
                        Abs(rv[vertices[k] + 1][3] - faceZ) < epsilon
    IN  allSameZ /\ Abs(faceZ - zs) <= epsilon

\* all 4 corners of the face at the Z of its first corner, and that Z at zs
FaceOnPlane(vertices, rv, zs) ==
    LET faceZ == rv[vertices[1] + 1][3]
        allSameZ == \A k \in 1..Len(vertices) :
                        Abs(rv[vertices[k] + 1][3] - faceZ) < epsilon
    IN  allSameZ /\ Abs(faceZ - zs) < epsilon

\* a variant that takes a corner's depth for its y
FacePoints_WrongAxis(cubeFace, rv) ==
    SortByAngle([k \in 1..Len(cubeFace.vertices) |->
                    [x |-> rv[cubeFace.vertices[k] + 1][1],
                     y |-> rv[cubeFace.vertices[k] + 1][3],
                     color |-> cubeFace.color]])

\* the face's corners, colored, ordered by angle
FacePoints(cubeFace, rv) ==
    SortByAngle([k \in 1..Len(cubeFace.vertices) |->
                    [x |-> rv[cubeFace.vertices[k] + 1][1],
                     y |-> rv[cubeFace.vertices[k] + 1][2],
                     color |-> cubeFace.color]])

\* a variant that does not ask whether the edge straddles the plane
EdgeIntersection_NoRangeTest(edge, rv, zs) ==
    LET p1 == rv[edge.v1 + 1]
        p2 == rv[edge.v2 + 1]
        z1 == p1[3]
        z2 == p2[3]
    IN  IF Abs(z2 - z1) < epsilon
        THEN IF Abs(z1 - zs) < epsilon
             THEN << [x |-> RoundDiv(p1[1] + p2[1], 2),
                      y |-> RoundDiv(p1[2] + p2[2], 2),
                      faces |-> edge.faces] >>
             ELSE <<>>
        ELSE << [x |-> p1[1] + RoundDiv((zs - z1) * (p2[1] - p1[1]), z2 - z1),
                 y |-> p1[2] + RoundDiv((zs - z1) * (p2[2] - p1[2]), z2 - z1),
                 faces |-> edge.faces] >>

\* what one edge adds to intersections: nothing or one point
EdgeIntersection(edge, rv, zs) ==
    LET p1 == rv[edge.v1 + 1]
        p2 == rv[edge.v2 + 1]
        z1 == p1[3]
        z2 == p2[3]
    IN  IF (z1 <= zs /\ z2 >= zs) \/ (z1 >= zs /\ z2 <= zs)
        THEN IF Abs(z2 - z1) < epsilon
             THEN IF Abs(z1 - zs) < epsilon
                  THEN << [x |-> RoundDiv(p1[1] + p2[1], 2),
                           y |-> RoundDiv(p1[2] + p2[2], 2),
                           faces |-> edge.faces] >>
                  ELSE <<>>
             ELSE \* t = (zs - z1) / (z2 - z1), p1 + t * (p2 - p1)
                  << [x |-> p1[1] + RoundDiv((zs - z1) * (p2[1] - p1[1]), z2 - z1),
                      y |-> p1[2] + RoundDiv((zs - z1) * (p2[2] - p1[2]), z2 - z1),
                      faces |-> edge.faces] >>
        ELSE <<>>

RECURSIVE Intersections(_, _, _)
Intersections(rv, zs, n) ==
    IF n = 0 THEN <<>>
    ELSE Intersections(rv, zs, n - 1) \o EdgeIntersection(CUBE_EDGES[n], rv, zs)

\* a variant that keeps every point
UniquePoints_KeepAll(pts, n) == SubSeq(pts, 1, n)

\* the first of each group of points that agree in x and y within epsilon
RECURSIVE UniquePoints(_, _)
UniquePoints(pts, n) ==
    IF n = 0 THEN <<>>
    ELSE LET uniquePoints == UniquePoints(pts, n - 1)
             pt == pts[n]
             isDuplicate == \E k \in 1..Len(uniquePoints) :
                                /\ Abs(uniquePoints[k].x - pt.x) < epsilon
                                /\ Abs(uniquePoints[k].y - pt.y) < epsilon
         IN  IF isDuplicate THEN uniquePoints ELSE Append(uniquePoints, pt)

faceIndices == << <<0, 1, 2, 3>>, <<4, 5, 6, 7>>, <<0, 1, 5, 4>>,
                 <<2, 3, 7, 6>>, <<0, 3, 7, 4>>, <<1, 2, 6, 5>> >>

\* a variant that takes any 4 points for a face
PostHocIsFace_NoRecheck(uniquePoints, rv, zs) == Len(uniquePoints) = 4

\* the check after the general path, made only when 4 points are left
PostHocIsFace(uniquePoints, rv, zs) ==
    /\ Len(uniquePoints) = 4
    /\ \E f \in 1..Len(faceIndices) : FaceOnPlane(faceIndices[f], rv, zs)

\* the first color of a that b has too, or grey
EdgeColor(a, b) ==
    LET shared == {k \in 1..Len(a.faces) : Includes(b.faces, a.faces[k])}
    IN  IF shared = {} THEN "#888888"
        ELSE a.faces[CHOOSE k \in shared : \A j \in shared : k <= j]

OutputPoints(uniquePoints) ==
    [i \in 1..Len(uniquePoints) |->
        [x |-> uniquePoints[i].x,
         y |-> uniquePoints[i].y,
         color |-> EdgeColor(uniquePoints[i],
                             uniquePoints[(i % Len(uniquePoints)) + 1])]]

\* uniquePoints after the sort: the points met, without duplicates, each with
\* the faces of the edge that gave it
OrderedPoints(rv, zs) ==
    LET unique == UniquePoints(Intersections(rv, zs, Len(CUBE_EDGES)),
                               Len(Intersections(rv, zs, Len(CUBE_EDGES))))
    IN  IF Len(unique) > 2 THEN SortByAngle(unique) ELSE unique

\* the general path: every edge against the plane
GeneralPath(rv, zs) ==
    LET ordered == OrderedPoints(rv, zs)
    IN  [points |-> OutputPoints(ordered),
         isFace |-> PostHocIsFace(ordered, rv, zs)]

computeSlice(zs, rot) ==
    LET rv == RotatedVertices(rot)
        onPlane == {f \in 1..Len(CUBE_FACES) : FaceOnPlane(CUBE_FACES[f].vertices, rv, zs)}
    IN  IF onPlane # {}
        THEN [points |-> FacePoints(CUBE_FACES[CHOOSE f \in onPlane :
                                                \A g \in onPlane : f <= g], rv),
              isFace |-> TRUE]
        ELSE GeneralPath(rv, zs)

---------------------------------------------------------------------------
(* Scene4.tsx: computeArrowSlices *)

FACE_CENTERS == << << One, Half, Half >>, << 0, Half, Half >>,
                   << Half, One, Half >>, << Half, 0, Half >>,
                   << Half, Half, One >>, << Half, Half, 0 >> >>

BASE_ROD_RADIUS == 400

BASE_CONE_RADIUS == 1000

\* the largest s in lo..hi with s * s <= n
RECURSIVE FloorSqrt(_, _, _)
FloorSqrt(n, lo, hi) ==
    IF lo = hi THEN lo
    ELSE LET mid == (lo + hi + 1) \div 2
         IN  IF mid * mid <= n THEN FloorSqrt(n, mid, hi)
                               ELSE FloorSqrt(n, lo, mid - 1)

\* Math.sqrt of n square units, rounded to the nearest unit
Sqrt(n) == (FloorSqrt(4 * n, 0, 4 * One) + 1) \div 2

Max(a, b) == IF a > b THEN a ELSE b

shaftEndT == 6 * (One \div 10)

\* what the loop body computes from the rotated endpoints of a marker, their
\* difference d and its length
ArrowOfLength(fromRotated, toRotated, d, arrowLength) ==
    [fromRotated |-> fromRotated,
     toRotated |-> toRotated,
     dx |-> d[1], dy |-> d[2], dz |-> d[3],
     arrowLength |-> arrowLength,
     dirX |-> RoundDiv(d[1] * One, arrowLength),
     dirY |-> RoundDiv(d[2] * One, arrowLength),
     dirZ |-> RoundDiv(d[3] * One, arrowLength),
     shaftEnd |-> << fromRotated[1] + Mul(d[1], shaftEndT),
                     fromRotated[2] + Mul(d[2], shaftEndT),
                     fromRotated[3] + Mul(d[3], shaftEndT) >>,
     minZ |-> IF fromRotated[3] < toRotated[3] THEN fromRotated[3] ELSE toRotated[3],
     maxZ |-> Max(fromRotated[3], toRotated[3]),
     maxRadius |-> Max(BASE_ROD_RADIUS, BASE_CONE_RADIUS)]

ArrowOfVector(fromRotated, toRotated, d) ==
    ArrowOfLength(fromRotated, toRotated, d,
                  Sqrt(d[1] * d[1] + d[2] * d[2] + d[3] * d[3]))

ArrowOfEnds(fromRotated, toRotated) ==
    ArrowOfVector(fromRotated, toRotated,
                  << toRotated[1] - fromRotated[1],
                     toRotated[2] - fromRotated[2],
                     toRotated[3] - fromRotated[3] >>)

\* the part of the loop body before the range test: the rotated endpoints of
\* the marker and what is computed from them
ArrowGeometry(faceCenter, rot) ==
    ArrowOfEnds(rotatePoint(center, rot, center), rotatePoint(faceCenter, rot, center))

\* the range test: the marker is skipped
OutOfRange(g, zs) ==
    \/ zs < g.minZ - g.maxRadius - epsilon
    \/ zs > g.maxZ + g.maxRadius + epsilon

cosTheta(g) == Abs(g.dirZ)

\* the test of the branch for a marker parallel to the slice plane
Parallel_Always(g) == TRUE

Parallel(g) == cosTheta(g) < One \div 100

\* Math.atan2(dirY, dirX), kept as its two arguments
ellipseAngle(g) == [atan2Y |-> g.dirY, atan2X |-> g.dirX]

zOffset(g, zs) == Abs(g.fromRotated[3] - zs)

\* the rod of a parallel marker cut at a chord of the given half height
RodOfHeight(g, zs, halfHeight) ==
    IF zOffset(g, zs) < BASE_ROD_RADIUS /\ halfHeight > epsilon
    THEN << [type |-> "rectangle",
             x |-> RoundDiv(g.fromRotated[1] + g.shaftEnd[1], 2),
             y |-> RoundDiv(g.fromRotated[2] + g.shaftEnd[2], 2),
             rotation |-> ellipseAngle(g),
             width |-> Mul(g.arrowLength, shaftEndT),
             height |-> halfHeight * 2] >>
    ELSE <<>>

\* the rod of a parallel marker: a rectangle, or nothing
RodSlice(g, zs) ==
    RodOfHeight(g, zs, Sqrt(Max(0, BASE_ROD_RADIUS * BASE_ROD_RADIUS
                                   - zOffset(g, zs) * zOffset(g, zs))))

\* the test of the axial cut of the cone
Axial_Never(g, zs) == FALSE

Axial(g, zs) == zOffset(g, zs) < epsilon

\* the cone of a parallel marker: a triangle, a hyperbola, or nothing
ConeSlice(g, zs) ==
    IF ~(zOffset(g, zs) < BASE_CONE_RADIUS) THEN <<>>
    ELSE IF Axial(g, zs)
    THEN << [type |-> "triangle",
             x |-> RoundDiv(g.shaftEnd[1] + g.toRotated[1], 2),
             y |-> RoundDiv(g.shaftEnd[2] + g.toRotated[2], 2),
             rotation |-> ellipseAngle(g),
             baseWidth |-> BASE_CONE_RADIUS * 2,
             length |-> Mul(g.arrowLength, One - shaftEndT)] >>
    ELSE << [type |-> "hyperbola",
             x |-> RoundDiv(g.shaftEnd[1] + g.toRotated[1], 2),
             y |-> RoundDiv(g.shaftEnd[2] + g.toRotated[2], 2),
             rotation |-> ellipseAngle(g),
             zOffset |-> zOffset(g, zs),
             coneRadius |-> BASE_CONE_RADIUS,
             coneLength |-> Mul(g.arrowLength, One - shaftEndT)] >>

\* t = (zSlice - fromRotated[2]) / dz, in units of 1 / One
ArrowT(g, zs) == RoundDiv((zs - g.fromRotated[3]) * One, g.dz)

\* the radius of the marker at t: the rod up to shaftEndT, then the cone
baseRadius(t) ==
    IF t <= shaftEndT THEN BASE_ROD_RADIUS
    ELSE LET coneT == RoundDiv((t - shaftEndT) * One, One - shaftEndT)
         IN  Mul(BASE_CONE_RADIUS, One - coneT)

\* the ellipse of a marker cut at t with the given radius
EllipseAt(g, t, radius) ==
    [type |-> "ellipse",
     x |-> g.fromRotated[1] + Mul(t, g.dx),
     y |-> g.fromRotated[2] + Mul(t, g.dy),
     rotation |-> ellipseAngle(g),
     rx |-> RoundDiv(radius * One, cosTheta(g)),
     ry |-> radius]

AngledAt_AnyRadius(g, t) ==
    IF t < 0 \/ t > One THEN <<>>
    ELSE << EllipseAt(g, t, baseRadius(t)) >>

\* a marker cut at t: an ellipse, or nothing
AngledAt(g, t) ==
    IF t < 0 \/ t > One THEN <<>>
    ELSE IF baseRadius(t) > epsilon THEN << EllipseAt(g, t, baseRadius(t)) >>
    ELSE <<>>

\* a marker at an angle to the slice plane
AngledSlice(g, zs) == AngledAt(g, ArrowT(g, zs))

\* the slices of a marker of geometry g
SlicesOfGeometry(g, zs) ==
    IF OutOfRange(g, zs) THEN <<>>
    ELSE IF Parallel(g) THEN RodSlice(g, zs) \o ConeSlice(g, zs)
    ELSE AngledSlice(g, zs)

\* one turn of the loop: the slices pushed for one marker
ArrowSlicesOf(faceCenter, zs, rot) ==
    SlicesOfGeometry(ArrowGeometry(faceCenter, rot), zs)

RECURSIVE ArrowSlicesUpTo(_, _, _)
ArrowSlicesUpTo(n, zs, rot) ==
    IF n = 0 THEN <<>>
    ELSE ArrowSlicesUpTo(n - 1, zs, rot) \o ArrowSlicesOf(FACE_CENTERS[n], zs, rot)

computeArrowSlices(zs, rot) == ArrowSlicesUpTo(Len(FACE_CENTERS), zs, rot)

---------------------------------------------------------------------------
(* Scene4.tsx: the arrays that computeSlice and computeArrowSlices change   *)
(* in place (push, sort), and the object each of them is.                   *)

StaticTables == {"CUBE_VERTICES", "CUBE_FACES", "CUBE_EDGES", "FACE_CENTERS"}

\* what each name of the two functions is bound to: an array made by the call
\* itself ("fresh": a literal [] or the result of map), or an object of a
\* static table
Owner(name) ==
    CASE name = "slices"            -> "fresh"          \* const slices = []
      [] name = "faceCenter"        -> "FACE_CENTERS"   \* of FACE_CENTERS
      [] name = "rotatedVertices"   -> "fresh"          \* CUBE_VERTICES.map(...)
      [] name = "cubeFace.vertices" -> "CUBE_FACES"     \* of CUBE_FACES
      [] name = "facePoints"        -> "fresh"          \* cubeFace.vertices.map(...)
      [] name = "intersections"     -> "fresh"          \* = []
      [] name = "edge.faces"        -> "CUBE_EDGES"     \* of CUBE_EDGES
      [] name = "uniquePoints"      -> "fresh"          \* = []
      [] name = "outputPoints"      -> "fresh"          \* = []

\* the array that the face path sorts
FaceSortReceiver_Vertices == "cubeFace.vertices"

FaceSortReceiver == "facePoints"

\* the arrays that computeSlice(zs, rot) pushes to or sorts
SliceReceivers(zs, rot) ==
    LET rv2 == RotatedVertices(rot)
        onPlane == \E f \in 1..Len(CUBE_FACES) : FaceOnPlane(CUBE_FACES[f].vertices, rv2, zs)
        hit == \E e \in 1..Len(CUBE_EDGES) : EdgeIntersection(CUBE_EDGES[e], rv2, zs) # <<>>
    IN  IF onPlane THEN {FaceSortReceiver}
        ELSE IF hit THEN {"intersections", "uniquePoints", "outputPoints"}
        ELSE {}

\* the array that computeArrowSlices(zs, rot) pushes to
ArrowReceivers(zs, rot) ==
    IF \E m \in 1..Len(FACE_CENTERS) : ArrowSlicesOf(FACE_CENTERS[m], zs, rot) # <<>>
    THEN {"slices"}
    ELSE {}

\* the static tables that own an array changed by the two memos
TablesWritten(zs, rot, arrows) ==
    {Owner(name) : name \in SliceReceivers(zs, rot)
                            \cup (IF arrows THEN ArrowReceivers(zs, rot) ELSE {})}
    \cap StaticTables

---------------------------------------------------------------------------
(* The cross-section view: props in, memoized slice out *)

Rotations == (1..NAngles) \X (1..NAngles) \X (1..NAngles)

\* the quarters from -0.5 to 2.0, and the values at and around the Z of each
\* rotated corner
ZValues(rot) ==
    {k * (One \div 4) : k \in -2..8}
    \cup {RotatedVertices(rot)[i][3] + d * (epsilon \div 2) :
             i \in 1..8, d \in -MaxOffset..MaxOffset}

NoResult == [points |-> <<>>, isFace |-> FALSE]

NothingRotated ==
    /\ turn = "start"
    /\ v4 = <<0, 0, 0, 0>>
    /\ plane = "XW"
    /\ angle = 1
    /\ rotated = <<0, 0, 0, 0>>
    /\ restored = <<0, 0, 0, 0>>

NothingCalled ==
    /\ callee = "none"
    /\ argument = <<>>
    /\ returned = <<>>

NothingLoaded ==
    /\ stage = "5-cell"
    /\ POLYTOPES_4D = <<>>
    /\ visited = 0
    /\ result = <<>>

Init ==
    /\ pc = "input"
    /\ rotation \in Rotations
    /\ zSlice \in ZValues(rotation)
    /\ sliceResult = NoResult
    /\ showArrows = FALSE
    /\ arrowSlices = <<>>
    /\ written = {}
    /\ renders = 0
    /\ NothingLoaded
    /\ NothingCalled
    /\ NothingRotated

\* CrossSection2D: the two memos,
\*   useMemo(() => computeSlice(z, rotation), [z, rotation])
\*   useMemo(() => showArrows ? computeArrowSlices(z, rotation) : [], ...)
CrossSection2D ==
    /\ pc = "input"
    /\ pc' = "rendered"
    /\ sliceResult' = computeSlice(zSlice, rotation)
    /\ arrowSlices' = IF showArrows THEN computeArrowSlices(zSlice, rotation) ELSE <<>>
    /\ written' = written \cup TablesWritten(zSlice, rotation, showArrows)
    /\ renders' = renders + 1
    /\ UNCHANGED <<rotation, zSlice, showArrows>>
    /\ UNCHANGED catalogVars
    /\ UNCHANGED rotateVars
    /\ UNCHANGED callVars

Next == CrossSection2D

Spec == Init /\ [][Next]_vars

---------------------------------------------------------------------------
(* The cross-section view with the face markers shown *)

\* distances from the Z of the cube's center at and around the radii of the
\* rod and the cone, and the width of the range test
ArrowOffsets == {0, epsilon \div 2, epsilon, epsilon + 1,
                 BASE_ROD_RADIUS \div 2, BASE_ROD_RADIUS - 1, BASE_ROD_RADIUS,
                 BASE_CONE_RADIUS - 1, BASE_CONE_RADIUS,
                 BASE_CONE_RADIUS + epsilon, BASE_CONE_RADIUS + epsilon + 1}

NSteps == 3

\* the quarters from -0.25 to 1.25, the Z of the center moved by the offsets, and
\* the Z along each marker at every step of its length and next to its tip
ArrowZValues(rot) ==
    {k * (One \div 4) : k \in -1..5}
    \cup {Half + s * o : s \in {-1, 1}, o \in ArrowOffsets}
    \cup {ArrowGeometry(FACE_CENTERS[m], rot).fromRotated[3]
          + RoundDiv(ArrowGeometry(FACE_CENTERS[m], rot).dz * k, NSteps) :
             m \in 1..Len(FACE_CENTERS), k \in 0..NSteps}
    \cup {ArrowGeometry(FACE_CENTERS[m], rot).toRotated[3] + d * (epsilon \div 2) :
             m \in 1..Len(FACE_CENTERS), d \in {-1, 1}}

ArrowInit ==
    /\ pc = "input"
    /\ rotation \in Rotations
    /\ zSlice \in ArrowZValues(rotation)
    /\ sliceResult = NoResult
    /\ showArrows = TRUE
    /\ arrowSlices = <<>>
    /\ written = {}
    /\ renders = 0
    /\ NothingLoaded
    /\ NothingCalled
    /\ NothingRotated

ArrowSpec == ArrowInit /\ [][Next]_vars



---------------------------------------------------------------------------
(* The cross-section view rendered again with other props *)

MaxRenders == 2

QueryRotations == {<<1, 1, 1>>, <<3, 1, 1>>, <<1, 5, 3>>}

QueryZValues == {0, Half, Half + BASE_ROD_RADIUS \div 2, 3 * (One \div 4), One}

QueryInit ==
    /\ pc = "input"
    /\ rotation \in QueryRotations
    /\ zSlice \in QueryZValues
    /\ sliceResult = NoResult
    /\ showArrows \in BOOLEAN
    /\ arrowSlices = <<>>
    /\ written = {}
    /\ renders = 0
    /\ NothingLoaded
    /\ NothingCalled
    /\ NothingRotated

\* the parent passes other props; the memos keep their values until they run
Rerender ==
    /\ pc = "rendered"
    /\ renders < MaxRenders
    /\ pc' = "input"
    /\ rotation' \in QueryRotations
    /\ zSlice' \in QueryZValues
    /\ showArrows' \in BOOLEAN
    /\ UNCHANGED <<sliceResult, arrowSlices, written, renders>>
    /\ UNCHANGED catalogVars
    /\ UNCHANGED rotateVars
    /\ UNCHANGED callVars

QueryNext == CrossSection2D \/ Rerender

QuerySpec == QueryInit /\ [][QueryNext]_vars

---------------------------------------------------------------------------
(* Properties of computeSlice *)

Done == pc = "rendered"

\* the rotated corners of the current query; corner i is rv[i + 1]
rv == RotatedVertices(rotation)

Corner(i) == RotatedVertex(i + 1, rotation)

CornerZ(i) == Corner(i)[3]

CornerXY(i) == SubSeq(Corner(i), 1, 2)

Corners == 0..7

\* the 12 pairs of corners joined by a cube edge
EdgePairs == {<<i, j>> \in Corners \X Corners :
                 i < j /\ Cardinality({k \in 1..3 :
                              CUBE_VERTICES[i + 1][k] # CUBE_VERTICES[j + 1][k]}) = 1}

\* the 6 faces as sets of 4 corners: one coordinate fixed at 0 or at 1
FaceSets == {{i \in Corners : CUBE_VERTICES[i + 1][k] = b} : k \in 1..3, b \in {0, 1}}

PointXY(p) == << p.x, p.y >>

XYs(points) == [i \in 1..Len(points) |-> PointXY(points[i])]

Range(seq) == {seq[i] : i \in 1..Len(seq)}

UnitSquare == << <<0, 0>>, <<One, 0>>, <<One, One>>, <<0, One>> >>

\* C1: computeSlice returns at most 6 points, whatever the rotation and the
\* slice coordinate.
C1_AtMostSixPoints == Done => Len(sliceResult.points) \in 0..6

\* some face has its 4 rotated corners within epsilon of the Z of its first
\* corner, and that Z within epsilon of the slice coordinate
SomeFaceCoincides ==
    \E f \in 1..6 :
        LET first == CUBE_FACES[f].vertices[1]
        IN  /\ \A k \in 1..4 :
                  Abs(CornerZ(CUBE_FACES[f].vertices[k]) - CornerZ(first)) < epsilon
            /\ Abs(CornerZ(first) - zSlice) < epsilon

\* C2: isFace is true if and only if one of the 6 faces has all 4 rotated
\* corners at one Z within epsilon and that Z is the slice coordinate within
\* epsilon; the general path with its re-check at 4 points never says otherwise.
C2_IsFaceIffFaceCoincides ==
    Done => /\ sliceResult.isFace <=> SomeFaceCoincides
            /\ ~SomeFaceCoincides => sliceResult = GeneralPath(rv, zSlice)

\* a face lies in the plane although its corners are not all at the same Z
C2_Witness ==
    /\ Done
    /\ sliceResult.isFace
    /\ \E f \in FaceSets : /\ \A i \in f : Abs(CornerZ(i) - zSlice) < epsilon
                           /\ \E i, j \in f : CornerZ(i) # CornerZ(j)

\* C3: when isFace is true there are exactly 4 points, they are the XY
\* positions of the 4 rotated corners of one face and all carry that face's
\* color; with no rotation and the slice at 0 they are the back face's corners
\* (0,0), (1,0), (1,1), (0,1).
C3_FaceResultIsTheFace ==
    Done /\ sliceResult.isFace =>
        /\ Len(sliceResult.points) = 4
        /\ \E f \in 1..6 :
              /\ Range(XYs(sliceResult.points))
                     = {CornerXY(CUBE_FACES[f].vertices[k]) : k \in 1..4}
              /\ Cardinality(Range(XYs(sliceResult.points))) = 4
              /\ \A i \in 1..4 : sliceResult.points[i].color = CUBE_FACES[f].color
        /\ (rotation = <<1, 1, 1>> /\ zSlice = 0) =>
              /\ XYs(sliceResult.points) = UnitSquare
              /\ \A i \in 1..4 : sliceResult.points[i].color = C_Back

C3_Witness ==
    Done /\ rotation = <<1, 1, 1>> /\ zSlice = 0 /\ sliceResult.isFace

\* the plane holds one whole cube edge and every other corner is strictly on
\* one side of it
PlaneMeetsOnlyAnEdge ==
    \E e \in EdgePairs :
        /\ CornerZ(e[1]) = zSlice
        /\ CornerZ(e[2]) = zSlice
        /\ \/ \A i \in Corners \ {e[1], e[2]} : CornerZ(i) > zSlice
           \/ \A i \in Corners \ {e[1], e[2]} : CornerZ(i) < zSlice

\* C4: when the plane passes exactly through one cube edge and meets the cube
\* nowhere else, computeSlice returns exactly 2 points.
C4_EdgeGivesTwoPoints ==
    Done /\ PlaneMeetsOnlyAnEdge => Len(sliceResult.points) = 2

\* exactly one rotated corner has the Z of the slice
OneCornerOnPlane == Cardinality({i \in Corners : CornerZ(i) = zSlice}) = 1

NoEdgeInPlane ==
    \A e \in EdgePairs : ~(CornerZ(e[1]) = zSlice /\ CornerZ(e[2]) = zSlice)

\* C5 as stated: one corner exactly on the plane and no edge or face in the
\* plane give exactly 1 point.
C5_OneCornerGivesOnePoint ==
    Done /\ OneCornerOnPlane /\ NoEdgeInPlane => Len(sliceResult.points) = 1

\* every corner but the one on the plane is on one side of it, epsilon or more
\* away
OthersClearOfPlane ==
    \/ \A i \in Corners : CornerZ(i) = zSlice \/ CornerZ(i) >= zSlice + epsilon
    \/ \A i \in Corners : CornerZ(i) = zSlice \/ CornerZ(i) <= zSlice - epsilon

\* C5 amended: one corner exactly on the plane and every other corner on one
\* side of the plane, epsilon or more away from it in Z, give exactly 1 point,
\* the XY position of that corner.
C5_TouchedCornerGivesOnePoint ==
    Done /\ OneCornerOnPlane /\ OthersClearOfPlane =>
        /\ Len(sliceResult.points) = 1
        /\ \E i \in Corners : /\ CornerZ(i) = zSlice
                              /\ PointXY(sliceResult.points[1]) = CornerXY(i)
        /\ ~sliceResult.isFace

\* a cube tilted about two axes touches the plane with its lowest corner
C5_Witness ==
    /\ Done
    /\ OneCornerOnPlane
    /\ OthersClearOfPlane
    /\ Len(sliceResult.points) = 1
    /\ rotation = <<1, 3, 3>>

\* C6: with no rotation and a slice coordinate from 0.001 to 0.999 the result
\* is the 4 points (0,0), (1,0), (1,1), (0,1) and isFace is false.
C6_InteriorSliceIsUnitSquare ==
    (Done /\ rotation = <<1, 1, 1>> /\ zSlice >= epsilon /\ zSlice <= One - epsilon) =>
        /\ XYs(sliceResult.points) = UnitSquare
        /\ ~sliceResult.isFace

C6_Witness ==
    /\ Done
    /\ rotation = <<1, 1, 1>>
    /\ zSlice = Half
    /\ Len(sliceResult.points) = 4
    /\ ~sliceResult.isFace

MinZ == CHOOSE z \in {CornerZ(i) : i \in Corners} : \A i \in Corners : z <= CornerZ(i)

MaxZ == CHOOSE z \in {CornerZ(i) : i \in Corners} : \A i \in Corners : z >= CornerZ(i)

\* C7: a slice coordinate more than epsilon below the lowest or above the
\* highest rotated corner gives no points and isFace false.
C7_OutsideGivesNothing ==
    (Done /\ (zSlice < MinZ - epsilon \/ zSlice > MaxZ + epsilon)) =>
        /\ sliceResult.points = <<>>
        /\ ~sliceResult.isFace

C7_Witness ==
    /\ Done
    /\ rotation = <<1, 1, 1>>
    /\ zSlice = 2 * One
    /\ sliceResult.points = <<>>

\* the sign of the turn a -> b -> c
Orient(a, b, c) ==
    LET v == (b.x - a.x) * (c.y - a.y) - (b.y - a.y) * (c.x - a.x)
    IN  IF v > 0 THEN 1 ELSE IF v < 0 THEN -1 ELSE 0

\* c, known to be on the line through a and b, is on the segment a b
OnSegment(a, b, c) ==
    /\ (IF a.x <= b.x THEN a.x <= c.x /\ c.x <= b.x ELSE b.x <= c.x /\ c.x <= a.x)
    /\ (IF a.y <= b.y THEN a.y <= c.y /\ c.y <= b.y ELSE b.y <= c.y /\ c.y <= a.y)

\* the segments a b and c d have a point in common
SegmentsMeet(a, b, c, d) ==
    LET o1 == Orient(a, b, c)  o2 == Orient(a, b, d)
        o3 == Orient(c, d, a)  o4 == Orient(c, d, b)
    IN  \/ (o1 # o2 /\ o3 # o4)
        \/ (o1 = 0 /\ OnSegment(a, b, c))
        \/ (o2 = 0 /\ OnSegment(a, b, d))
        \/ (o3 = 0 /\ OnSegment(c, d, a))
        \/ (o4 = 0 /\ OnSegment(c, d, b))

\* no two edges of the closed polygon that are not neighbours have a point in
\* common
IsSimplePolygon(points) ==
    LET n == Len(points)
        next(i) == (i % n) + 1
    IN  \A i, j \in 1..n :
            (i < j /\ next(i) # j /\ next(j) # i) =>
                ~SegmentsMeet(points[i], points[next(i)], points[j], points[next(j)])

\* C8: 3 or more returned points, joined in order and closed, make a simple
\* polygon: no two non-adjacent edges cross.
C8_PolygonIsSimple ==
    Done /\ Len(sliceResult.points) >= 3 => IsSimplePolygon(sliceResult.points)

C8_Witness ==
    Done /\ Len(sliceResult.points) = 6 /\ IsSimplePolygon(sliceResult.points)


\* the faces of CUBE_FACES that hold both ends of the edge
FacesOfEdge(edge) ==
    {f \in 1..Len(CUBE_FACES) :
        {edge.v1, edge.v2} \subseteq Range(CUBE_FACES[f].vertices)}

\* C27: CUBE_EDGES holds exactly the 12 edges of the unit cube, the pairs of
\* corners that differ in exactly one coordinate, each once, and each is
\* tagged with exactly 2 different colors, those of the 2 faces of CUBE_FACES
\* that hold both of its ends.
C27_CubeEdgesAreTagged ==
    /\ Len(CUBE_EDGES) = 12
    /\ {{CUBE_EDGES[e].v1, CUBE_EDGES[e].v2} : e \in 1..Len(CUBE_EDGES)}
           = {{p[1], p[2]} : p \in EdgePairs}
    /\ Cardinality({{p[1], p[2]} : p \in EdgePairs}) = 12
    /\ \A e \in 1..Len(CUBE_EDGES) :
          /\ Len(CUBE_EDGES[e].faces) = 2
          /\ CUBE_EDGES[e].faces[1] # CUBE_EDGES[e].faces[2]
          /\ Cardinality(FacesOfEdge(CUBE_EDGES[e])) = 2
          /\ Range(CUBE_EDGES[e].faces)
                 = {CUBE_FACES[f].color : f \in FacesOfEdge(CUBE_EDGES[e])}
    /\ Done /\ ~SomeFaceCoincides =>
          \A i \in 1..Len(sliceResult.points) :
              \/ sliceResult.points[i].color = "#888888"
              \/ \E e \in 1..Len(CUBE_EDGES) :
                    sliceResult.points[i].color \in Range(CUBE_EDGES[e].faces)

\* a hexagon cut from the cube, each side with the color of another face
C27_Witness ==
    /\ Done
    /\ ~SomeFaceCoincides
    /\ Len(sliceResult.points) = 6
    /\ Cardinality({sliceResult.points[i].color : i \in 1..6}) = 6
    /\ \A i \in 1..6 : sliceResult.points[i].color # "#888888"

\* C21: whenever the general path of computeSlice returns 3 or more points,
\* the color of each point is a face color that is in the tags of the point
\* and in the tags of the next point around the polygon; the grey fallback
\* "#888888" is never returned.
C21_ColorsAreSharedFaces ==
    (Done /\ ~SomeFaceCoincides /\ Len(sliceResult.points) >= 3) =>
        LET tagged == OrderedPoints(rv, zSlice)
        IN  \A i \in 1..Len(sliceResult.points) :
                /\ sliceResult.points[i].color # "#888888"
                /\ sliceResult.points[i].color
                       \in Range(tagged[i].faces)
                           \cap Range(tagged[(i % Len(tagged)) + 1].faces)

---------------------------------------------------------------------------
(* Properties of computeArrowSlices *)

Markers == 1..Len(FACE_CENTERS)

\* the geometry and the slices of marker m in the current query
Geometry(m) == ArrowGeometry(FACE_CENTERS[m], rotation)

SlicesOf(m) == ArrowSlicesOf(FACE_CENTERS[m], zSlice, rotation)

Shown == Done /\ showArrows

\* the list in the state is what the markers gave, in the order of FACE_CENTERS
SlicesAreOfMarkers ==
    arrowSlices = SlicesOf(1) \o SlicesOf(2) \o SlicesOf(3)
                  \o SlicesOf(4) \o SlicesOf(5) \o SlicesOf(6)

\* the axis of marker m is at an angle to the slice plane: |dirZ| >= 0.01
Angled(m) == Abs(Geometry(m).dirZ) >= One \div 100

\* C16: for every marker whose rotated axis is not parallel to the slice
\* plane (cosTheta = |dirZ| >= 0.01), every slice emitted for it is an
\* ellipse with rx >= ry.
C16_AngledMarkerGivesEllipse ==
    Shown =>
        /\ SlicesAreOfMarkers
        /\ \A m \in Markers :
              Angled(m) =>
                  \A s \in Range(SlicesOf(m)) :
                      /\ s.type = "ellipse"
                      /\ s.rx >= s.ry

\* an oblique marker cut in its rod: an ellipse longer than wide
C16_Witness ==
    /\ Shown
    /\ arrowSlices # <<>>
    /\ \E m \in Markers :
          /\ Angled(m)
          /\ Abs(Geometry(m).dirZ) < One
          /\ SlicesOf(m) # <<>>
          /\ SlicesOf(m)[1].type = "ellipse"
          /\ SlicesOf(m)[1].rx > SlicesOf(m)[1].ry

\* the slices of marker m of the given type
OfType(m, type) == {i \in 1..Len(SlicesOf(m)) : SlicesOf(m)[i].type = type}

\* the slice plane is within 0.001 of the Z of the axis of marker m
OnAxis(m) == Abs(Geometry(m).fromRotated[3] - zSlice) < epsilon

\* C17: for a marker whose axis lies in the slice plane (cosTheta < 0.01) and
\* whose zOffset is below 0.001, the cone's cross-section is emitted as a
\* triangle, and no hyperbola is emitted for it.
C17_AxialCutIsTriangle ==
    Shown =>
        \A m \in Markers :
            ~Angled(m) /\ OnAxis(m) =>
                /\ Cardinality(OfType(m, "triangle")) = 1
                /\ OfType(m, "hyperbola") = {}

\* a parallel marker cut just off its axis
C17_Witness ==
    /\ Shown
    /\ \E m \in Markers :
          /\ ~Angled(m)
          /\ OnAxis(m)
          /\ Geometry(m).fromRotated[3] # zSlice
          /\ OfType(m, "triangle") # {}
          /\ \E i \in 1..Len(arrowSlices) : arrowSlices[i].type = "triangle"

\* the size fields of an ArrowSlice are within the limits of its type; an rx
\* is a radius over a cosTheta of at least 0.01, so at most 100 times ry
SizesInLimits(s) ==
    IF s.type = "ellipse"
        THEN /\ s.rx > epsilon
             /\ s.ry > epsilon
             /\ s.rx <= 100 * s.ry
    ELSE IF s.type = "rectangle"
        THEN /\ s.width > 0
             /\ s.height > 2 * epsilon
    ELSE IF s.type = "triangle"
        THEN /\ s.baseWidth > 0
             /\ s.length > 0
    ELSE /\ s.type = "hyperbola"
         /\ s.coneRadius > 0
         /\ s.coneLength > 0
         /\ epsilon <= s.zOffset
         /\ s.zOffset < s.coneRadius

\* C18: every ArrowSlice returned has finite, strictly positive sizes: an
\* ellipse has rx and ry above 0.001, a rectangle width above 0 and height
\* above 0.002, a triangle baseWidth and length above 0, a hyperbola
\* coneRadius and coneLength above 0 and 0.001 <= zOffset < coneRadius.
C18_SizesArePositive ==
    Shown => \A i \in 1..Len(arrowSlices) : SizesInLimits(arrowSlices[i])

\* one query that gives an ellipse, a rectangle cut off the axis of its rod,
\* and a hyperbola
C18_Witness ==
    /\ Shown
    /\ \E i, j, k \in 1..Len(arrowSlices) :
          /\ arrowSlices[i].type = "ellipse"
          /\ arrowSlices[j].type = "rectangle"
          /\ arrowSlices[j].height < 2 * BASE_ROD_RADIUS
          /\ arrowSlices[k].type = "hyperbola"

\* Every quotient taken by a query whose divisor is not a literal, as
\* [at, of, num, den]: "edge t" of edge e (computeSlice, t), "count" (the
\* centroid of the face or of the polygon), "dir" of marker m (the
\* normalization by arrowLength), "marker t" and "rx" of marker m.

\* edge e reaches the linear interpolation
Interpolated_Parallel(e, rv2, zs) ==
    LET z1 == rv2[CUBE_EDGES[e].v1 + 1][3]
        z2 == rv2[CUBE_EDGES[e].v2 + 1][3]
    IN  (z1 <= zs /\ z2 >= zs) \/ (z1 >= zs /\ z2 <= zs)

Interpolated(e, rv2, zs) ==
    LET z1 == rv2[CUBE_EDGES[e].v1 + 1][3]
        z2 == rv2[CUBE_EDGES[e].v2 + 1][3]
    IN  /\ (z1 <= zs /\ z2 >= zs) \/ (z1 >= zs /\ z2 <= zs)
        /\ ~(Abs(z2 - z1) < epsilon)

\* the interpolations of the loop over CUBE_EDGES, which is not reached when
\* a face is on the plane
EdgeDivisions(zs, rot) ==
    LET rv2 == RotatedVertices(rot)
        onPlane == \E f \in 1..Len(CUBE_FACES) : FaceOnPlane(CUBE_FACES[f].vertices, rv2, zs)
    IN  IF onPlane THEN {}
        ELSE {[at |-> "edge t", of |-> e,
               num |-> zs - rv2[CUBE_EDGES[e].v1 + 1][3],
               den |-> rv2[CUBE_EDGES[e].v2 + 1][3] - rv2[CUBE_EDGES[e].v1 + 1][3]] :
                 e \in {e \in 1..Len(CUBE_EDGES) : Interpolated(e, rv2, zs)}}

\* the centroid of the points that are sorted: the four of a face, or the
\* unique points when there are more than two
CountDivisions(res) ==
    IF Len(res.points) > 2
    THEN {[at |-> "count", of |-> 0, num |-> 0, den |-> Len(res.points)]}
    ELSE {}

ArrowDivisionsOf(m, zs, rot) ==
    LET g == ArrowGeometry(FACE_CENTERS[m], rot)
        t == ArrowT(g, zs)
    IN  {[at |-> "dir", of |-> m, num |-> g.dz, den |-> g.arrowLength]}
        \cup (IF ~OutOfRange(g, zs) /\ ~Parallel(g)
              THEN {[at |-> "marker t", of |-> m,
                     num |-> zs - g.fromRotated[3], den |-> g.dz]}
                   \cup (IF ~(t < 0 \/ t > One) /\ baseRadius(t) > epsilon
                         THEN {[at |-> "rx", of |-> m,
                                num |-> baseRadius(t), den |-> cosTheta(g)]}
                         ELSE {})
              ELSE {})

ArrowDivisions(zs, rot) ==
    UNION {ArrowDivisionsOf(m, zs, rot) : m \in 1..Len(FACE_CENTERS)}

Divisions ==
    EdgeDivisions(zSlice, rotation) \cup CountDivisions(sliceResult)
    \cup ArrowDivisions(zSlice, rotation)

\* num / den is in [0, 1]
InUnit(num, den) ==
    \/ den > 0 /\ 0 <= num /\ num <= den
    \/ den < 0 /\ den <= num /\ num <= 0

\* no divisor is 0; an edge's t is taken only when |z2 - z1| >= 0.001 and is
\* then in [0, 1]; a marker's t is taken only when |dirZ| >= 0.01
DivisionsAreGuarded ==
    \A d \in Divisions :
        /\ d.den # 0
        /\ d.at = "edge t" => Abs(d.den) >= epsilon /\ InUnit(d.num, d.den)
        /\ d.at = "marker t" => Angled(d.of)

\* C19 as stated: no division by zero in computeSlice or computeArrowSlices,
\* with the guards above, and arrowLength is 0.5 for all 6 markers under
\* every rotation.
C19_NoDivisionByZero ==
    Shown =>
        /\ DivisionsAreGuarded
        /\ \A m \in Markers : Geometry(m).arrowLength = Half

\* C19: no division by zero in computeSlice or computeArrowSlices, with the
\* guards above, and arrowLength is never 0: it is 0.5 up to the rounding of
\* the rotation and the square root.
C19_NoDivisionByZeroLengthNearHalf ==
    Shown =>
        /\ DivisionsAreGuarded
        /\ \A m \in Markers :
              /\ Geometry(m).arrowLength > 0
              /\ Abs(Geometry(m).arrowLength - Half) <= 2

\* a query that interpolates an edge and a marker, skips the division for a
\* marker parallel to the plane, and has a marker whose length is not 0.5
C19_Witness ==
    /\ Shown
    /\ \E d \in Divisions : d.at = "edge t" /\ d.num # 0 /\ d.num # d.den
    /\ \E d \in Divisions : d.at = "marker t"
    /\ \E m \in Markers : ~Angled(m) /\ SlicesOf(m) # <<>>
    /\ \E m \in Markers : Geometry(m).arrowLength # Half

\* C20: computeSlice and computeArrowSlices never modify the static tables
\* CUBE_VERTICES, CUBE_FACES, CUBE_EDGES (with the faces arrays handed out by
\* reference) and FACE_CENTERS, so the result of a query depends only on its
\* own (sliceCoordinate, rotation), whatever queries ran before it.
C20_TablesNeverModified ==
    /\ written = {}
    /\ Done =>
          /\ sliceResult = computeSlice(zSlice, rotation)
          /\ arrowSlices = IF showArrows THEN computeArrowSlices(zSlice, rotation)
                                         ELSE <<>>

\* a query after another one, in which the points were sorted in place and
\* marker slices were pushed
C20_Witness ==
    /\ Done
    /\ renders = MaxRenders
    /\ Len(sliceResult.points) > 2
    /\ arrowSlices # <<>>
    /\ SliceReceivers(zSlice, rotation) # {}

(***************************************************************************)
(* polytopes4d.ts: the catalog of the six regular 4-polytopes.             *)
(***************************************************************************)

\* The unit of a coordinate: 2 divides it for PHI, 5 for 1 / sqrt 5.
Den == 2 * 5

Q(n) == <<n * Den, 0>>

QNeg(x) == <<-x[1], -x[2]>>

QAdd(x, y) == <<x[1] + y[1], x[2] + y[2]>>

QSub(x, y) == <<x[1] - y[1], x[2] - y[2]>>

\* (a + b s)(c + d s) with s * s = 5; a product of two coordinates is again
\* a coordinate, a product of squared lengths is taken with PMul.
PMul(x, y) == <<x[1] * y[1] + 5 * x[2] * y[2], x[1] * y[2] + x[2] * y[1]>>

QMul(x, y) == <<PMul(x, y)[1] \div Den, PMul(x, y)[2] \div Den>>

QDiv(x, y) ==
    LET n == y[1] * y[1] - 5 * y[2] * y[2]
        p == PMul(x, <<y[1], -y[2]>>)
    IN  <<(Den * p[1]) \div n, (Den * p[2]) \div n>>

QSqr(x) == PMul(x, x)

\* a + b * sqrt 5 > 0
Positive(y) ==
    IF y[1] >= 0 /\ y[2] >= 0 THEN y[1] > 0 \/ y[2] > 0
    ELSE IF y[1] <= 0 /\ y[2] <= 0 THEN FALSE
    ELSE IF y[1] > 0 THEN y[1] * y[1] > 5 * y[2] * y[2]
    ELSE 5 * y[2] * y[2] > y[1] * y[1]

QLess(x, y) == Positive(QSub(y, x))

QAbs(x) == IF Positive(QNeg(x)) THEN QNeg(x) ELSE x

\* y / unit < 1 / T.  A positive y is at least 1 / (|a| + 3 |b|), which
\* settles the large T without large products.
Below(y, unit, T) ==
    IF ~Positive(y) THEN TRUE
    ELSE IF (Abs(y[1]) + 3 * Abs(y[2])) * unit <= T THEN FALSE
    ELSE Positive(<<unit - T * y[1], -(T * y[2])>>)

SQRT5 == <<0, Den>>

PHI == QDiv(QAdd(Q(1), SQRT5), Q(2))

PHI_INV == QDiv(Q(1), PHI)

PHI_SQ == QMul(PHI, PHI)

PHI_INV_SQ == QMul(PHI_INV, PHI_INV)

NormSq(v) == QAdd(QAdd(QSqr(v[1]), QSqr(v[2])), QAdd(QSqr(v[3]), QSqr(v[4])))

dist4Sq(a, b) == NormSq([i \in 1..4 |-> QSub(a[i], b[i])])

\* raw.push(...list) for each list in turn
RECURSIVE Concat(_)
Concat(lists) ==
    IF lists = <<>> THEN <<>>
    ELSE IF Len(lists) = 1 THEN lists[1]
    ELSE Concat(SubSeq(lists, 1, Len(lists) \div 2))
         \o Concat(SubSeq(lists, Len(lists) \div 2 + 1, Len(lists)))

Swap(arr, i, j) == [arr EXCEPT ![i] = arr[j], ![j] = arr[i]]

\* The index orders the recursive permute reaches, each with the parity it
\* has counted, in the order it reaches them.
RECURSIVE permute(_, _, _)
RECURSIVE permuteLoop(_, _, _, _)
permute(arr, start, parity) ==
    IF start = Len(arr) + 1 THEN <<[order |-> arr, parity |-> parity]>>
    ELSE permuteLoop(arr, start, parity, start)

permuteLoop(arr, start, parity, i) ==
    IF i > Len(arr) THEN <<>>
    ELSE permute(Swap(arr, start, i), start + 1,
                 parity + (IF i = start THEN 0 ELSE 1))
         \o permuteLoop(arr, start, parity, i + 1)

indices == permute(<<1, 2, 3, 4>>, 1, 0)

Pick(v, arr) == <<v[arr[1]], v[arr[2]], v[arr[3]], v[arr[4]]>>

allPermutations(v) == [n \in 1..Len(indices) |-> Pick(v, indices[n].order)]

\* a variant that keeps the odd permutations too
evenPermutations_All(v) == allPermutations(v)

\* a variant that keeps the odd permutations instead
evenPermutations_Odd(v) ==
    LET odd == SelectSeq(indices, LAMBDA e : e.parity % 2 = 1)
    IN  [n \in 1..Len(odd) |-> Pick(v, odd[n].order)]

evenPermutations(v) ==
    LET even == SelectSeq(indices, LAMBDA e : e.parity % 2 = 0)
    IN  [n \in 1..Len(even) |-> Pick(v, even[n].order)]

\* mask & 2^k, for k from 0
Bit(mask, k) == (mask \div (2 ^ k)) % 2 = 1

\* a variant that never negates the last coordinate
allSignVariations_KeepLast(v) ==
    [n \in 1..16 |->
        [k \in 1..4 |-> IF k < 4 /\ Bit(n - 1, k - 1) THEN QNeg(v[k]) ELSE v[k]]]

allSignVariations(v) ==
    [n \in 1..16 |->
        [k \in 1..4 |-> IF Bit(n - 1, k - 1) THEN QNeg(v[k]) ELSE v[k]]]

\* dedup's tolerance 1e-8, as its reciprocal
tol == 100000000

Found(v, res) ==
    \E i \in 1..Len(res) : Below(dist4Sq(v, res[i]), Den * Den, tol)

\* dedup's loop over the vertices vs, starting from the result res
RECURSIVE dedupLoop(_, _)
dedupLoop(res, vs) ==
    IF vs = <<>> THEN res
    ELSE dedupLoop(IF Found(Head(vs), res) THEN res ELSE Append(res, Head(vs)),
                   Tail(vs))

dedup(vs) == dedupLoop(<<>>, vs)

\* The largest squared length, 0 for no vertex at all.
MaxNormSq(vs) ==
    IF vs = <<>> THEN <<0, 0>>
    ELSE LET norms == {NormSq(vs[i]) : i \in 1..Len(vs)}
         IN  CHOOSE m \in norms : \A o \in norms : ~QLess(m, o)

\* The list vs multiplied by sqrt(scaleSq.num / scaleSq.den).
scaleToRadius(vs, target) ==
    [scaleSq |-> [num |-> QSqr(target), den |-> MaxNormSq(vs)], coords |-> vs]

NotScaled(vs) == [scaleSq |-> [num |-> Q(1), den |-> Q(1)], coords |-> vs]

\* 1.5
Radius == <<(3 * Den) \div 2, 0>>

Sign(b) == IF b THEN Q(1) ELSE Q(-1)

\* Whole numbers below and above a + b * sqrt 5, from 2.236 < sqrt 5 < 2.237.
LowerBound(p) ==
    p[1] + (IF p[2] >= 0 THEN (2236 * p[2]) \div 1000 ELSE (2237 * p[2]) \div 1000)

UpperBound(p) ==
    p[1] + 1 + (IF p[2] >= 0 THEN (2237 * p[2]) \div 1000 ELSE (2236 * p[2]) \div 1000)

QTimes(n, p) == <<n * p[1], n * p[2]>>

\* d > tolerance for the squared distance d of two scaled vertices:
\* (d / Den^2) * (scaleSq.num / scaleSq.den) > 1 / T.  The whole bounds settle
\* the large T without large products.
ScaledAbove(d, scaleSq, T) ==
    IF ~Positive(d) THEN FALSE
    ELSE IF /\ LowerBound(d) > 0
            /\ LowerBound(scaleSq.num) > 0
            /\ LowerBound(d) * LowerBound(scaleSq.num)
                   > (UpperBound(scaleSq.den) * Den * Den) \div T
         THEN TRUE
         ELSE Positive(QSub(QTimes(T, PMul(d, scaleSq.num)),
                            QTimes(Den * Den, scaleSq.den)))

\* a variant that takes anything below 3 times minDist
WithinRel_Triple(d, minDist, T) == Positive(QSub(QTimes(3, minDist), d))

\* Math.abs(d - minDist) < tolerance * minDist; the scale, common to both
\* sides, is left out.
WithinRel(d, minDist, T) ==
    LET diff == QAbs(QSub(d, minDist))
    IN  IF ~Positive(diff) THEN TRUE
        ELSE IF LowerBound(diff) > UpperBound(minDist) \div T THEN FALSE
        ELSE Positive(QSub(minDist, QTimes(T, diff)))

Infinity == "Infinity"

\* findEdges' tolerance 1e-6, as its reciprocal
tolerance == 1000000

\* a variant that takes the largest squared distance
MinDist_Largest(vs) ==
    LET n == Len(vs.coords)
        ds == UNION {{dist4Sq(vs.coords[i], vs.coords[j]) : j \in (i + 1)..n} :
                        i \in 1..n}
        above == {d \in ds : ScaledAbove(d, vs.scaleSq, tolerance)}
    IN  IF above = {} THEN Infinity
        ELSE CHOOSE m \in above : \A o \in above : ~QLess(m, o)

\* The smallest squared distance above the tolerance, before scaling.
MinDist(vs) ==
    LET n == Len(vs.coords)
        ds == UNION {{dist4Sq(vs.coords[i], vs.coords[j]) : j \in (i + 1)..n} :
                        i \in 1..n}
        above == {d \in ds : ScaledAbove(d, vs.scaleSq, tolerance)}
    IN  IF above = {} THEN Infinity
        ELSE CHOOSE m \in above : \A o \in above : ~QLess(o, m)

\* The edges [i, j] of one i, j ascending; indices count from 0 as in the code.
EdgesFrom(vs, i, minDist) ==
    LET js == SelectSeq([k \in 1..(Len(vs.coords) - i) |-> i + k],
                        LAMBDA j : WithinRel(dist4Sq(vs.coords[i], vs.coords[j]),
                                             minDist, tolerance))
    IN  [k \in 1..Len(js) |-> <<i - 1, js[k] - 1>>]

findEdges(vs) ==
    LET minDist == MinDist(vs)
    IN  IF minDist = Infinity THEN <<>>
        ELSE Concat([i \in 1..Len(vs.coords) |-> EdgesFrom(vs, i, minDist)])

\* for i < 5, for j from i + 1: [i, j]
FiveCellEdges ==
    Concat([i \in 1..5 |-> [k \in 1..(5 - i) |-> <<i - 1, i + k - 1>>]])

\* the pairs i < j of vertices that differ in exactly 1 coordinate
TesseractEdgesFrom(v, i) ==
    LET js == SelectSeq([k \in 1..(16 - i) |-> i + k],
                        LAMBDA j : Cardinality({k \in 1..4 : v[i][k] # v[j][k]}) = 1)
    IN  [k \in 1..Len(js) |-> <<i - 1, js[k] - 1>>]

TesseractEdges(v) == Concat([i \in 1..16 |-> TesseractEdgesFrom(v, i)])

\* Set.add for each entry in turn: an entry already in the set is not added
RECURSIVE AddEach(_, _)
AddEach(seq, n) ==
    IF n = 0 THEN <<>>
    ELSE LET set == AddEach(seq, n - 1)
         IN  IF Includes(set, seq[n]) THEN set ELSE Append(set, seq[n])

\* adj.get(i): the other ends of the edges that hold i, in edge order
Neighbours(edges, i) ==
    LET mine == SelectSeq(edges, LAMBDA e : e[1] = i \/ e[2] = i)
    IN  AddEach([k \in 1..Len(mine) |->
                    IF mine[k][1] = i THEN mine[k][2] ELSE mine[k][1]], Len(mine))

\* a variant that does not ask whether k is a neighbour of i
TrianglesOn_Open(edges, i, j) ==
    LET ks == SelectSeq(Neighbours(edges, j), LAMBDA k : k > j)
    IN  [n \in 1..Len(ks) |-> <<i, j, ks[n]>>]

\* the faces [i, j, k] of one i and one of its neighbours j
TrianglesOn(edges, i, j) ==
    LET ni == Neighbours(edges, i)
        ks == SelectSeq(Neighbours(edges, j), LAMBDA k : k > j /\ Includes(ni, k))
    IN  [n \in 1..Len(ks) |-> <<i, j, ks[n]>>]

\* the faces [i, j, k] of one i
TrianglesAt(edges, i) ==
    LET js == SelectSeq(Neighbours(edges, i), LAMBDA j : j > i)
    IN  Concat([n \in 1..Len(js) |-> TrianglesOn(edges, i, js[n])])

\* a variant that lists the edges themselves
findTriangles_Edges(vs, edges) == edges

\* all 3-cliques of the edge graph, i < j < k
findTriangles(vs, edges) ==
    Concat([n \in 1..Len(vs.coords) |-> TrianglesAt(edges, n - 1)])

\* for i < j < k < 5: [i, j, k]
FiveCellFaces ==
    LET triples == {t \in (0..4) \X (0..4) \X (0..4) : t[1] < t[2] /\ t[2] < t[3]}
        before(t, u) == \/ t[1] < u[1]
                        \/ t[1] = u[1] /\ t[2] < u[2]
                        \/ t[1] = u[1] /\ t[2] = u[2] /\ t[3] < u[3]
    IN  [n \in 1..Cardinality(triples) |->
            CHOOSE t \in triples : Cardinality({u \in triples : before(u, t)}) = n - 1]

\* the pairs d1 < d2 in loop order
AxisPairs == <<<<1, 2>>, <<1, 3>>, <<1, 4>>, <<2, 3>>, <<2, 4>>, <<3, 4>>>>

\* vertices.findIndex: the first index with these coordinates, or -1
findIdx(v, c) ==
    IF \E i \in 1..Len(v) : v[i] = c
    THEN (CHOOSE i \in 1..Len(v) : v[i] = c /\ \A j \in 1..(i - 1) : v[j] # c) - 1
    ELSE -1

\* a variant that lists the corners as generated: c0, c1, c2, c3
TesseractFace_AsGenerated(v, d1, d2, v1, v2) ==
    LET fixedDims == SelectSeq(<<1, 2, 3, 4>>, LAMBDA d : d # d1 /\ d # d2)
        coord(a, b) == [k \in 1..4 |->
                           IF k = d1 THEN a
                           ELSE IF k = d2 THEN b
                           ELSE IF k = fixedDims[1] THEN v1 ELSE v2]
    IN  <<findIdx(v, coord(Q(-1), Q(-1))), findIdx(v, coord(Q(-1), Q(1))),
          findIdx(v, coord(Q(1), Q(-1))), findIdx(v, coord(Q(1), Q(1)))>>

\* The square with the dimensions d1 < d2 free and the other two at v1, v2:
\* its corners c0, c1, c3, c2.
TesseractFace(v, d1, d2, v1, v2) ==
    LET fixedDims == SelectSeq(<<1, 2, 3, 4>>, LAMBDA d : d # d1 /\ d # d2)
        coord(a, b) == [k \in 1..4 |->
                           IF k = d1 THEN a
                           ELSE IF k = d2 THEN b
                           ELSE IF k = fixedDims[1] THEN v1 ELSE v2]
    IN  <<findIdx(v, coord(Q(-1), Q(-1))), findIdx(v, coord(Q(-1), Q(1))),
          findIdx(v, coord(Q(1), Q(1))), findIdx(v, coord(Q(1), Q(-1)))>>

TesseractFaces(v) ==
    LET all == [n \in 1..24 |->
                   TesseractFace(v, AxisPairs[((n - 1) \div 4) + 1][1],
                                    AxisPairs[((n - 1) \div 4) + 1][2],
                                    Sign(Bit((n - 1) % 4, 1)),
                                    Sign(Bit((n - 1) % 4, 0)))]
    IN  SelectSeq(all, LAMBDA f : \A k \in 1..4 : f[k] >= 0)

makeFiveCell ==
    LET s == QDiv(Q(1), SQRT5)
        v == << <<Q(1), Q(1), Q(1), QNeg(s)>>,
                <<Q(1), Q(-1), Q(-1), QNeg(s)>>,
                <<Q(-1), Q(1), Q(-1), QNeg(s)>>,
                <<Q(-1), Q(-1), Q(1), QNeg(s)>>,
                <<Q(0), Q(0), Q(0), QMul(Q(4), s)>> >>
    IN  [name |-> "5-cell", vertices |-> scaleToRadius(v, Radius),
         edges |-> FiveCellEdges, faces |-> FiveCellFaces, faceSize |-> 3]

makeTesseract ==
    LET v == [n \in 1..16 |->
                 <<Sign(Bit(n - 1, 3)), Sign(Bit(n - 1, 2)),
                   Sign(Bit(n - 1, 1)), Sign(Bit(n - 1, 0))>>]
    IN  [name |-> "8-cell", vertices |-> NotScaled(v), edges |-> TesseractEdges(v),
         faces |-> TesseractFaces(v), faceSize |-> 4]

makeSixteenCell ==
    LET v == [n \in 1..8 |->
                 [k \in 1..4 |->
                     IF k = ((n - 1) \div 2) + 1
                     THEN Sign((n - 1) % 2 = 0) ELSE Q(0)]]
    IN  [name |-> "16-cell", vertices |-> scaleToRadius(v, Radius),
         edges |-> findEdges(scaleToRadius(v, Radius)),
         faces |-> findTriangles(scaleToRadius(v, Radius),
                                 findEdges(scaleToRadius(v, Radius))),
         faceSize |-> 3]

makeTwentyFourCell ==
    LET v == [n \in 1..24 |->
                 LET d == AxisPairs[((n - 1) \div 4) + 1]
                     m == (n - 1) % 4
                 IN  [k \in 1..4 |->
                         IF k = d[1] THEN Sign(Bit(m, 1))
                         ELSE IF k = d[2] THEN Sign(Bit(m, 0))
                         ELSE Q(0)]]
    IN  [name |-> "24-cell", vertices |-> scaleToRadius(v, Radius),
         edges |-> findEdges(scaleToRadius(v, Radius)),
         faces |-> findTriangles(scaleToRadius(v, Radius),
                                 findEdges(scaleToRadius(v, Radius))),
         faceSize |-> 3]

\* Math.abs(Math.abs(x) - SQRT5) < 0.01
NearSqrt5(x) == Below(QAbs(QSub(QAbs(x), SQRT5)), Den, 100)

HasSqrt5(p) == \E k \in 1..4 : NearSqrt5(p[k])

PermutationsWithSqrt5(sv) == SelectSeq(allPermutations(sv), HasSqrt5)

PermutationsOfEach(vs) == Concat([n \in 1..Len(vs) |-> allPermutations(vs[n])])

FilteredPermutationsOfEach(vs) ==
    Concat([n \in 1..Len(vs) |-> PermutationsWithSqrt5(vs[n])])

EvenPermutationsOfEach(vs) == Concat([n \in 1..Len(vs) |-> evenPermutations(vs[n])])

\* The raw list of makeOneHundredTwentyCell, its seven groups in order.
RawOneHundredTwentyCell ==
    LET bases == [n \in 1..4 |->
                     <<Q(0), Q(0), QMul(Q(2), Sign(Bit(n - 1, 1))),
                                   QMul(Q(2), Sign(Bit(n - 1, 0)))>>]
    IN  PermutationsOfEach(bases)
        \o FilteredPermutationsOfEach(allSignVariations(<<SQRT5, Q(1), Q(1), Q(1)>>))
        \o PermutationsOfEach(allSignVariations(<<PHI_INV_SQ, PHI, PHI, PHI>>))
        \o PermutationsOfEach(allSignVariations(<<PHI_SQ, PHI_INV, PHI_INV, PHI_INV>>))
        \o EvenPermutationsOfEach(allSignVariations(<<PHI_SQ, PHI_INV_SQ, Q(1), Q(0)>>))
        \o EvenPermutationsOfEach(allSignVariations(<<SQRT5, PHI_INV, PHI, Q(0)>>))
        \o EvenPermutationsOfEach(allSignVariations(<<Q(2), Q(1), PHI, PHI_INV>>))

\* The raw list of makeSixHundredCell, its three groups in order.
RawSixHundredCell ==
    LET axes == [n \in 1..8 |->
                    [k \in 1..4 |->
                        IF k = ((n - 1) % 4) + 1
                        THEN QMul(Q(2), Sign(n > 4)) ELSE Q(0)]]
    IN  axes
        \o allSignVariations(<<Q(1), Q(1), Q(1), Q(1)>>)
        \o EvenPermutationsOfEach(allSignVariations(<<Q(0), PHI_INV, Q(1), PHI>>))

\* How many raw vertices one step of dedup goes through.
DedupBatch == 8

Min(a, b) == IF a < b THEN a ELSE b

RawOf(s) ==
    IF s = "120-cell" THEN RawOneHundredTwentyCell
    ELSE IF s = "600-cell" THEN RawSixHundredCell
    ELSE <<>>

NoSlice ==
    /\ pc = "input"
    /\ rotation = <<1, 1, 1>>
    /\ zSlice = 0
    /\ sliceResult = NoResult
    /\ showArrows = FALSE
    /\ arrowSlices = <<>>
    /\ written = {}
    /\ renders = 0

CatalogInit == NoSlice /\ NothingLoaded /\ NothingRotated /\ NothingCalled

Made(polytope, nextStage) ==
    /\ POLYTOPES_4D' = Append(POLYTOPES_4D, polytope)
    /\ stage' = nextStage
    /\ visited' = 0
    /\ result' = <<>>
    /\ UNCHANGED sliceVars
    /\ UNCHANGED rotateVars
    /\ UNCHANGED callVars

MakeFiveCell == stage = "5-cell" /\ Made(makeFiveCell, "8-cell")

MakeTesseract == stage = "8-cell" /\ Made(makeTesseract, "16-cell")

MakeSixteenCell == stage = "16-cell" /\ Made(makeSixteenCell, "24-cell")

MakeTwentyFourCell == stage = "24-cell" /\ Made(makeTwentyFourCell, "120-cell")

\* dedup(raw), DedupBatch vertices of raw at a time
Dedup ==
    /\ visited < Len(RawOf(stage))
    /\ LET upTo == Min(visited + DedupBatch, Len(RawOf(stage)))
       IN  /\ result' = dedupLoop(result, SubSeq(RawOf(stage), visited + 1, upTo))
           /\ visited' = upTo
    /\ UNCHANGED <<stage, POLYTOPES_4D>>
    /\ UNCHANGED sliceVars
    /\ UNCHANGED rotateVars
    /\ UNCHANGED callVars

MakeOneHundredTwentyCell ==
    /\ stage = "120-cell"
    /\ visited = Len(RawOneHundredTwentyCell)
    /\ Made([name |-> "120-cell", vertices |-> scaleToRadius(result, Radius),
             edges |-> findEdges(scaleToRadius(result, Radius)),
             faces |-> <<>>, faceSize |-> 5],
            "600-cell")

MakeSixHundredCell ==
    /\ stage = "600-cell"
    /\ visited = Len(RawSixHundredCell)
    /\ LET vs == scaleToRadius(result, Radius)
           edges == findEdges(vs)
       IN  Made([name |-> "600-cell", vertices |-> vs, edges |-> edges,
                 faces |-> findTriangles(vs, edges), faceSize |-> 3],
                "loaded")

CatalogNext ==
    \/ MakeFiveCell
    \/ MakeTesseract
    \/ MakeSixteenCell
    \/ MakeTwentyFourCell
    \/ Dedup
    \/ MakeOneHundredTwentyCell
    \/ MakeSixHundredCell

CatalogSpec == CatalogInit /\ [][CatalogNext]_vars

(***************************************************************************)
(* Properties of the catalog.                                              *)
(***************************************************************************)

Loaded == stage = "loaded"

\* The numbers (p / q) and (r / s) of positive q and s are equal.
FracEq(p, q, r, s) == PMul(p, s) = PMul(r, q)

\* The largest squared length among the scaled vertices is that of target.
MaxRadiusIs(vs, target) ==
    LET n == MaxNormSq(vs.coords)
    IN  FracEq(PMul(n, vs.scaleSq.num), vs.scaleSq.den, QSqr(target), <<1, 0>>)

VertexCounts == <<5, 16, 8, 24, 600, 120>>

NoTwoEqual(seq) == \A i, j \in 1..Len(seq) : i # j => seq[i] # seq[j]

\* C9: each of the six polytopes of the catalog has the largest distance of
\* a vertex from the origin equal to 1.5.
C9_EveryCircumradiusIsRadius ==
    Loaded =>
        \A p \in 1..Len(POLYTOPES_4D) :
            MaxRadiusIs(POLYTOPES_4D[p].vertices, Radius)

\* C10: the catalog's vertex lists have 5, 16, 8, 24, 600 and 120 entries,
\* in this order, and no list has two equal entries.
C10_VertexCounts ==
    Loaded =>
        /\ Len(POLYTOPES_4D) = 6
        /\ \A p \in 1..6 :
            /\ Len(POLYTOPES_4D[p].vertices.coords) = VertexCounts[p]
            /\ NoTwoEqual(POLYTOPES_4D[p].vertices.coords)

C10_Witness ==
    /\ Loaded
    /\ Len(POLYTOPES_4D[5].vertices.coords) = 600
    /\ Len(POLYTOPES_4D[6].vertices.coords) = 120

\* The entries the edge lists are to have; the 120-cell's count is not stated.
EdgeCounts == <<10, 32, 24, 96, 0, 720>>

\* C11: the edge lists of the 5-cell, 8-cell, 16-cell, 24-cell and 600-cell
\* have 10, 32, 24, 96 and 720 entries.
C11_EdgeCounts ==
    Loaded =>
        \A p \in {1, 2, 3, 4, 6} : Len(POLYTOPES_4D[p].edges) = EdgeCounts[p]

C11_Witness ==
    /\ Loaded
    /\ Len(POLYTOPES_4D[1].edges) = 10
    /\ Len(POLYTOPES_4D[6].edges) = 720

\* The squared distances between two different entries of the list.
PairDistances(coords) ==
    UNION {{dist4Sq(coords[i], coords[j]) : j \in (i + 1)..Len(coords)} :
              i \in 1..Len(coords)}

SmallestNonzero(coords) ==
    LET ds == PairDistances(coords) \ {<<0, 0>>}
    IN  CHOOSE m \in ds : \A o \in ds : ~QLess(o, m)

\* The pairs i < j, counted from 0, at the smallest nonzero distance.
NearestPairs(coords) ==
    LET m == SmallestNonzero(coords)
    IN  UNION {{<<i - 1, j - 1>> :
                   j \in {k \in (i + 1)..Len(coords) : dist4Sq(coords[i], coords[k]) = m}} :
                  i \in 1..Len(coords)}

\* An edge as the pair of its smaller and its larger index.
Unordered(e) == IF e[1] <= e[2] THEN <<e[1], e[2]>> ELSE <<e[2], e[1]>>

EdgeSet(edges) == {Unordered(edges[k]) : k \in 1..Len(edges)}

\* C12: in every polytope of the catalog a pair of distinct vertex indices is
\* an edge if and only if the two vertices are at the smallest nonzero
\* distance between vertices of the polytope, and no pair is listed twice.
C12_EdgesAreNearestPairs ==
    Loaded =>
        \A p \in 1..Len(POLYTOPES_4D) :
            LET edges == POLYTOPES_4D[p].edges
            IN  /\ \A k \in 1..Len(edges) : edges[k][1] # edges[k][2]
                /\ EdgeSet(edges) = NearestPairs(POLYTOPES_4D[p].vertices.coords)
                /\ Cardinality(EdgeSet(edges)) = Len(edges)

C12_Witness ==
    /\ Loaded
    /\ Len(POLYTOPES_4D[5].edges) = 1200
    /\ EdgeSet(POLYTOPES_4D[5].edges)
           = NearestPairs(POLYTOPES_4D[5].vertices.coords)

FaceSizes == <<3, 4, 3, 3, 5, 3>>

\* C13: every face of every polytope of the catalog lists faceSize vertex
\* indices, 3 for the 5-cell, 16-cell, 24-cell and 600-cell and 4 for the
\* 8-cell; the 120-cell has faceSize 5 and no faces.
C13_FacesHaveFaceSize ==
    Loaded =>
        /\ \A p \in 1..Len(POLYTOPES_4D) :
              /\ POLYTOPES_4D[p].faceSize = FaceSizes[p]
              /\ \A f \in 1..Len(POLYTOPES_4D[p].faces) :
                    Len(POLYTOPES_4D[p].faces[f]) = POLYTOPES_4D[p].faceSize
        /\ POLYTOPES_4D[5].faces = <<>>

C13_Witness ==
    /\ Loaded
    /\ Len(POLYTOPES_4D[1].faces) = 10
    /\ Len(POLYTOPES_4D[2].faces) = 24
    /\ Len(POLYTOPES_4D[3].faces) = 32
    /\ Len(POLYTOPES_4D[4].faces) = 96
    /\ Len(POLYTOPES_4D[6].faces) = 1200

\* the 8-cell, once makeTesseract has run
TesseractMade == Len(POLYTOPES_4D) >= 2

Tesseract == POLYTOPES_4D[2]

\* the coordinates in which the vertices i and j of the 8-cell differ
Differing(i, j) ==
    {k \in 1..4 : Tesseract.vertices.coords[i + 1][k] # Tesseract.vertices.coords[j + 1][k]}

\* C25: makeTesseract produces exactly 24 faces, each a cycle of 4 different
\* vertices that agree on two coordinates, in which every two vertices that
\* follow each other around the cycle differ in exactly one coordinate, so
\* that they are the ends of an edge of the 8-cell.
C25_TesseractFacesAreCycles ==
    TesseractMade =>
        /\ Len(Tesseract.faces) = 24
        /\ Cardinality({Range(Tesseract.faces[f]) : f \in 1..Len(Tesseract.faces)}) = 24
        /\ \A f \in 1..Len(Tesseract.faces) :
              LET face == Tesseract.faces[f]
              IN  /\ Len(face) = 4
                  /\ Cardinality(Range(face)) = 4
                  /\ Range(face) \subseteq 0..15
                  /\ Cardinality({k \in 1..4 :
                         \A i, j \in Range(face) : k \notin Differing(i, j)}) = 2
                  /\ \A n \in 1..4 :
                        /\ Cardinality(Differing(face[n], face[(n % 4) + 1])) = 1
                        /\ \/ <<face[n], face[(n % 4) + 1]>> \in Range(Tesseract.edges)
                           \/ <<face[(n % 4) + 1], face[n]>> \in Range(Tesseract.edges)

\* the first square: x and y free, z = w = -1, its corners in the order
\* (-1, -1), (-1, 1), (1, 1), (1, -1)
C25_Witness ==
    /\ TesseractMade
    /\ Tesseract.name = "8-cell"
    /\ Tesseract.faces[1] = <<0, 4, 12, 8>>
    /\ Len(Tesseract.edges) = 32

(***************************************************************************)
(* Scene2.tsx: the rotations of a 4D point in the planes XW, YW and ZW.    *)
(***************************************************************************)

\* a variant that does not turn the angle around
Minus_Same(a) == a

\* an angle as its cosine and sine; Math.cos(-a) is Math.cos(a) and
\* Math.sin(-a) is -Math.sin(a)
Minus(a) == [cos |-> a.cos, sin |-> -a.sin]

rotateXW(v, a) ==
    <<Mul(v[1], a.cos) - Mul(v[4], a.sin), v[2], v[3],
      Mul(v[1], a.sin) + Mul(v[4], a.cos)>>

\* a variant that turns in the plane XW instead
rotateYW_AsXW(v, a) == rotateXW(v, a)

rotateYW(v, a) ==
    <<v[1], Mul(v[2], a.cos) - Mul(v[4], a.sin), v[3],
      Mul(v[2], a.sin) + Mul(v[4], a.cos)>>

\* a variant that adds w to z instead of turning
rotateZW_Sheared(v, a) == <<v[1], v[2], v[3] - v[4], v[3] + v[4]>>

rotateZW(v, a) ==
    <<v[1], v[2], Mul(v[3], a.cos) - Mul(v[4], a.sin),
      Mul(v[3], a.sin) + Mul(v[4], a.cos)>>

rotateInPlane(v, pl, a) ==
    IF pl = "XW" THEN rotateXW(v, a)
    ELSE IF pl = "YW" THEN rotateYW(v, a)
    ELSE rotateZW(v, a)

Planes == {"XW", "YW", "ZW"}

\* the coordinates a point is drawn from: the first NCoords of these
NCoords == 3

Coords == <<One, -3333, 0, 15000, -7071, 1>>

Points4 == {<<Coords[a], Coords[b], Coords[c], Coords[d]>> : a, b, c, d \in 1..NCoords}

RotateInit ==
    /\ turn = "start"
    /\ v4 \in Points4
    /\ plane \in Planes
    /\ angle \in 1..NAngles
    /\ rotated = <<0, 0, 0, 0>>
    /\ restored = <<0, 0, 0, 0>>
    /\ NoSlice
    /\ NothingLoaded
    /\ NothingCalled

Rotate ==
    /\ turn = "start"
    /\ rotated' = rotateInPlane(v4, plane, Angles[angle])
    /\ turn' = "rotated"
    /\ UNCHANGED <<v4, plane, angle, restored>>
    /\ UNCHANGED sliceVars
    /\ UNCHANGED catalogVars
    /\ UNCHANGED callVars

RotateBack ==
    /\ turn = "rotated"
    /\ restored' = rotateInPlane(rotated, plane, Minus(Angles[angle]))
    /\ turn' = "restored"
    /\ UNCHANGED <<v4, plane, angle, rotated>>
    /\ UNCHANGED sliceVars
    /\ UNCHANGED catalogVars
    /\ UNCHANGED callVars

RotateNext == Rotate \/ RotateBack

RotateSpec == RotateInit /\ [][RotateNext]_vars

\* the largest difference between two points in one coordinate
Apart(p, q) ==
    LET ds == {Abs(p[k] - q[k]) : k \in 1..4}
    IN  CHOOSE m \in ds : \A d \in ds : d <= m

\* C14 as stated: rotating by the angle and then by minus the angle in the
\* same plane gives back the point.
C14_RoundTripIsExact == turn = "restored" => restored = v4

\* the coordinates a rotation in the plane does not name
Unnamed(pl) ==
    IF pl = "XW" THEN {2, 3} ELSE IF pl = "YW" THEN {1, 3} ELSE {1, 2}

\* C14: rotating by the angle and then by minus the angle in the same plane
\* gives back the point up to rounding: the two coordinates the plane names
\* within 2 units of rounding, the other two exactly.
C14_RoundTripWithinRounding ==
    turn = "restored" =>
        /\ Apart(restored, v4) <= 2
        /\ \A k \in Unnamed(plane) : restored[k] = v4[k]

C14_Witness ==
    /\ turn = "restored"
    /\ angle # 1
    /\ rotated # v4
    /\ restored # v4
    /\ Apart(restored, v4) <= 2

\* C15: rotating by the angle 0 returns the point, and for every angle the
\* two coordinates the plane does not name are returned unchanged.
C15_ZeroAngleAndUnnamedCoordinates ==
    turn # "start" =>
        /\ (Angles[angle] = [cos |-> One, sin |-> 0] => rotated = v4)
        /\ \A k \in Unnamed(plane) : rotated[k] = v4[k]

C15_Witness ==
    /\ turn = "rotated"
    /\ angle = 1
    /\ plane = "YW"
    /\ v4[2] # 0
    /\ v4[4] # 0
    /\ rotated = v4

---------------------------------------------------------------------------
(* polytopes4d.ts: a generator applied to a template *)

\* the coordinates a template is made of: the first NValues of these
NValues == 4

TemplateValues == << Q(0), Q(1), PHI, Q(2), SQRT5, PHI_INV >>

Templates ==
    {<<TemplateValues[a], TemplateValues[b], TemplateValues[c], TemplateValues[d]>> :
        a \in 1..NValues, b \in 1..NValues, c \in 1..NValues, d \in 1..NValues}

GeneratorInit ==
    /\ NoSlice
    /\ NothingLoaded
    /\ NothingRotated
    /\ callee = "none"
    /\ argument \in Templates
    /\ returned = <<>>

Called(name, value) ==
    /\ callee = "none"
    /\ callee' = name
    /\ returned' = value
    /\ UNCHANGED argument
    /\ UNCHANGED sliceVars
    /\ UNCHANGED catalogVars
    /\ UNCHANGED rotateVars

CallAllPermutations == Called("allPermutations", allPermutations(argument))

CallEvenPermutations == Called("evenPermutations", evenPermutations(argument))

CallAllSignVariations == Called("allSignVariations", allSignVariations(argument))

GeneratorNext ==
    \/ CallAllPermutations
    \/ CallEvenPermutations
    \/ CallAllSignVariations

GeneratorSpec == GeneratorInit /\ [][GeneratorNext]_vars

\* how many entries of the list are w
Times(list, w) == Cardinality({n \in 1..Len(list) : list[n] = w})

\* the slots of v that hold a nonzero coordinate
Nonzero(v) == {k \in 1..4 : v[k] # Q(0)}

\* v with the sign of each nonzero coordinate flipped or not
SignFlips(v) ==
    {w \in [1..4 -> {v[k] : k \in 1..4} \cup {QNeg(v[k]) : k \in 1..4}] :
        \A k \in 1..4 : w[k] = v[k] \/ w[k] = QNeg(v[k])}

\* C22 as stated: allSignVariations(v) returns every combination of sign
\* flips of the nonzero coordinates of v without duplicates: 2^k variants for
\* a template with k nonzero coordinates.
C22_SignVariationsDeduplicated ==
    callee = "allSignVariations" =>
        /\ Range(returned) = SignFlips(argument)
        /\ Len(returned) = 2 ^ Cardinality(Nonzero(argument))
        /\ NoTwoEqual(returned)

\* C22: allSignVariations(v) returns 16 vectors, one for each choice of the
\* coordinates to negate, and removes no duplicate: they are every
\* combination of sign flips of the nonzero coordinates of v, 2^k different
\* vectors for k nonzero coordinates, each of them 2^(4 - k) times.
C22_SignVariationsSixteen ==
    callee = "allSignVariations" =>
        /\ Len(returned) = 16
        /\ Range(returned) = SignFlips(argument)
        /\ Cardinality(Range(returned)) = 2 ^ Cardinality(Nonzero(argument))
        /\ \A w \in Range(returned) :
              Times(returned, w) = 2 ^ (4 - Cardinality(Nonzero(argument)))

\* a template with one 0: 8 different vectors, each twice
C22_Witness ==
    /\ callee = "allSignVariations"
    /\ Cardinality(Nonzero(argument)) = 3
    /\ Cardinality(Range(returned)) = 8
    /\ Len(returned) = 16

\* the 24 orderings of the 4 slots
Orderings == {o \in [1..4 -> 1..4] : \A i, j \in 1..4 : i # j => o[i] # o[j]}

\* an ordering reached by an even number of swaps: its inversions are even
IsEven(o) ==
    Cardinality({<<i, j>> \in (1..4) \X (1..4) : i < j /\ o[i] > o[j]}) % 2 = 0

\* the list holds v in each of the orderings, each ordering once
EachOnce(list, v, orderings) ==
    /\ Len(list) = Cardinality(orderings)
    /\ \A w \in Range(list) \cup {Pick(v, o) : o \in orderings} :
          Times(list, w) = Cardinality({o \in orderings : Pick(v, o) = w})

\* C23: allPermutations(v) emits each of the 24 orderings of the 4 slots
\* exactly once; evenPermutations(v) emits exactly the 12 even orderings,
\* each once, and no odd one.
C23_PermutationsEachOnce ==
    /\ callee = "allPermutations" =>
          /\ Len(returned) = 24
          /\ EachOnce(returned, argument, Orderings)
    /\ callee = "evenPermutations" =>
          /\ Len(returned) = 12
          /\ EachOnce(returned, argument, {o \in Orderings : IsEven(o)})

\* a template of 4 different coordinates, whose 12 even orderings differ
C23_Witness ==
    /\ callee = "evenPermutations"
    /\ Cardinality({argument[k] : k \in 1..4}) = 4
    /\ Cardinality(Range(returned)) = 12
    /\ \E n \in 1..12 : returned[n] # argument

---------------------------------------------------------------------------
(* polytopes4d.ts: findTriangles applied to a graph *)

\* the graphs have 3 to NVertices vertices
NVertices == 4

\* the pairs [i, j] with i < j < n, in order
RECURSIVE PairsBelow(_)
PairsBelow(n) ==
    IF n < 2 THEN <<>>
    ELSE PairsBelow(n - 1) \o [i \in 1..(n - 1) |-> <<i - 1, n - 1>>]

Reverse(seq) == [k \in 1..Len(seq) |-> seq[Len(seq) + 1 - k]]

\* the edge lists over n vertices: any of the pairs, in order, in the opposite
\* order, or in order with the first of them once more at the end
EdgeLists(n) ==
    LET lists == {SelectSeq(PairsBelow(n), LAMBDA e : e \in chosen) :
                     chosen \in SUBSET Range(PairsBelow(n))}
    IN  lists
        \cup {Reverse(l) : l \in lists}
        \cup {l \o <<l[1]>> : l \in lists \ {<<>>}}

\* n vertices, which findTriangles only counts
SomeVertices(n) == [coords |-> [i \in 1..n |-> <<Q(i), Q(0), Q(0), Q(0)>>]]

Graphs ==
    UNION {{[vertices |-> SomeVertices(n), edges |-> l] : l \in EdgeLists(n)} :
              n \in 3..NVertices}

TriangleInit ==
    /\ NoSlice
    /\ NothingLoaded
    /\ NothingRotated
    /\ callee = "none"
    /\ argument \in Graphs
    /\ returned = <<>>

CallFindTriangles ==
    Called("findTriangles", findTriangles(argument.vertices, argument.edges))

TriangleNext == CallFindTriangles

TriangleSpec == TriangleInit /\ [][TriangleNext]_vars

\* the triples i < j < k of vertices whose three pairs are all edges
Cliques(graph) ==
    LET n == Len(graph.vertices.coords)
        es == Range(graph.edges)
    IN  {t \in (0..(n - 1)) \X (0..(n - 1)) \X (0..(n - 1)) :
            /\ <<t[1], t[2]>> \in es
            /\ <<t[2], t[3]>> \in es
            /\ <<t[1], t[3]>> \in es}

\* C24: findTriangles returns exactly the 3-cliques of the edge graph: every
\* triple i < j < k whose three pairs are all edges appears exactly once as
\* [i, j, k], and no other triple appears.
C24_TrianglesAreTheCliques ==
    callee = "findTriangles" =>
        /\ Range(returned) = Cliques(argument)
        /\ NoTwoEqual(returned)
        /\ \A n \in 1..Len(returned) :
              returned[n][1] < returned[n][2] /\ returned[n][2] < returned[n][3]

\* a graph with triangles, with a path i - j - k that is not closed, and with
\* an edge listed twice
C24_Witness ==
    /\ callee = "findTriangles"
    /\ Len(returned) >= 2
    /\ ~NoTwoEqual(argument.edges)
    /\ \E i, j, k \in 0..(NVertices - 1) :
          /\ <<i, j>> \in Range(argument.edges)
          /\ <<j, k>> \in Range(argument.edges)
          /\ <<i, k>> \notin Range(argument.edges)

---------------------------------------------------------------------------
(* Scene4.tsx: rotatePoint applied to a point *)

\* the points: the corners of the cube, the centers of its faces, its center
\* and a point outside it
RotatedPoints ==
    {<<CUBE_VERTICES[i][1] * One, CUBE_VERTICES[i][2] * One, CUBE_VERTICES[i][3] * One>> :
        i \in 1..Len(CUBE_VERTICES)}
    \cup Range(FACE_CENTERS)
    \cup {center, <<2 * One, -One, Half>>}

PointInit ==
    /\ NoSlice
    /\ NothingLoaded
    /\ NothingRotated
    /\ callee = "none"
    /\ argument \in [point : RotatedPoints, rotation : Rotations]
    /\ returned = <<>>

CallRotatePoint ==
    Called("rotatePoint", rotatePoint(argument.point, argument.rotation, center))

PointNext == CallRotatePoint

PointSpec == PointInit /\ [][PointNext]_vars

\* the rotations of a vector about the axes X, Y and Z by the angle a
AboutX(v, a) ==
    <<v[1],
      Mul(Angles[a].cos, v[2]) - Mul(Angles[a].sin, v[3]),
      Mul(Angles[a].sin, v[2]) + Mul(Angles[a].cos, v[3])>>

AboutY(v, a) ==
    <<Mul(Angles[a].cos, v[1]) + Mul(Angles[a].sin, v[3]),
      v[2],
      Mul(Angles[a].cos, v[3]) - Mul(Angles[a].sin, v[1])>>

AboutZ(v, a) ==
    <<Mul(Angles[a].cos, v[1]) - Mul(Angles[a].sin, v[2]),
      Mul(Angles[a].sin, v[1]) + Mul(Angles[a].cos, v[2]),
      v[3]>>

Minus3(p, q) == <<p[1] - q[1], p[2] - q[2], p[3] - q[3]>>

Plus3(p, q) == <<p[1] + q[1], p[2] + q[2], p[3] + q[3]>>

\* the largest difference between two points in one coordinate
Apart3(p, q) ==
    LET ds == {Abs(p[k] - q[k]) : k \in 1..3}
    IN  CHOOSE m \in ds : \A d \in ds : d <= m

\* the angles of Angles whose cosine and sine are exact in units
ExactAngles == {a \in 1..Len(Angles) :
                   Angles[a].cos * Angles[a].cos + Angles[a].sin * Angles[a].sin = One * One}

\* the point turned about X, then about Y, then about Z, around center
TurnedXYZ(point, rot) ==
    Plus3(AboutZ(AboutY(AboutX(Minus3(point, center), rot[1]), rot[2]), rot[3]), center)

\* the point turned about Z, then about Y, then about X, around center
TurnedZYX(point, rot) ==
    Plus3(AboutX(AboutY(AboutZ(Minus3(point, center), rot[3]), rot[2]), rot[1]), center)

\* what the three turns and the matrix may differ by through rounding: half
\* of epsilon
Rounding == epsilon \div 2

\* C26 as stated: rotatePoint is the translation by -center, the rotation
\* about X by rx, then about Y by ry, then about Z by rz, and the translation
\* back; rotatePoint(center, r, center) = center.
C26_TurnsXThenYThenZ ==
    callee = "rotatePoint" =>
        /\ Apart3(returned, TurnedXYZ(argument.point, argument.rotation)) <= Rounding
        /\ argument.point = center => returned = center

\* C26: rotatePoint is the translation by -center, the rotation about Z by
\* rz, then about Y by ry, then about X by rx (the matrix Rx * Ry * Rz on the
\* column vector), and the translation back, exactly for the angles that are
\* exact and up to rounding for the others; rotatePoint(center, r, center) =
\* center.
C26_TurnsZThenYThenX ==
    callee = "rotatePoint" =>
        /\ Apart3(returned, TurnedZYX(argument.point, argument.rotation)) <= Rounding
        /\ (\A k \in 1..3 : argument.rotation[k] \in ExactAngles) =>
               returned = TurnedZYX(argument.point, argument.rotation)
        /\ argument.point = center => returned = center

\* a corner turned by a quarter about X and by atan(4/3) about Z, for which
\* the order of the turns matters
C26_Witness ==
    /\ callee = "rotatePoint"
    /\ argument.rotation = <<2, 1, 3>>
    /\ argument.point = <<One, One, One>>
    /\ returned = TurnedZYX(argument.point, argument.rotation)
    /\ Apart3(returned, TurnedXYZ(argument.point, argument.rotation)) > epsilon

---------------------------------------------------------------------------
(* Scene4.tsx: the parallel case of computeArrowSlices on a finer scale.    *)
(* The rectangle of the rod is skipped when the half height of the chord is *)
(* 0.001 or less, which happens for a zOffset within 0.0000125 of the       *)
(* radius of the rod: here a length is a count of hundredths of a unit.     *)

\* the length 1.0 on the finer scale
FineOne == 100 * One

Fine(length) == (FineOne \div One) * length

\* ROD: the rectangle, or nothing; lines 214-232
ParallelRod_AnyHeight(fineOffset) ==
    IF fineOffset < Fine(BASE_ROD_RADIUS)
    THEN << [type |-> "rectangle",
             height |-> 2 * FloorSqrt(Max(0, Fine(BASE_ROD_RADIUS) * Fine(BASE_ROD_RADIUS)
                                              - fineOffset * fineOffset),
                                      0, Fine(BASE_ROD_RADIUS))] >>
    ELSE <<>>

ParallelRod(fineOffset) ==
    IF /\ fineOffset < Fine(BASE_ROD_RADIUS)
       \* halfHeight > 0.001, with both sides squared
       /\ Max(0, Fine(BASE_ROD_RADIUS) * Fine(BASE_ROD_RADIUS) - fineOffset * fineOffset)
              > Fine(epsilon) * Fine(epsilon)
    THEN << [type |-> "rectangle",
             height |-> 2 * FloorSqrt(Max(0, Fine(BASE_ROD_RADIUS) * Fine(BASE_ROD_RADIUS)
                                              - fineOffset * fineOffset),
                                      0, Fine(BASE_ROD_RADIUS))] >>
    ELSE <<>>

\* CONE: the triangle, the hyperbola, or nothing; lines 235-262
ParallelCone(fineOffset) ==
    IF ~(fineOffset < Fine(BASE_CONE_RADIUS)) THEN <<>>
    ELSE IF fineOffset < Fine(epsilon)
    THEN << [type |-> "triangle", baseWidth |-> Fine(BASE_CONE_RADIUS) * 2] >>
    ELSE << [type |-> "hyperbola", zOffset |-> fineOffset,
             coneRadius |-> Fine(BASE_CONE_RADIUS)] >>

\* what a marker parallel to the plane pushes, given its zOffset
ParallelBranch(fineOffset) == ParallelRod(fineOffset) \o ParallelCone(fineOffset)

\* how far below and above a landmark the offsets go, in hundredths of a unit
NFine == 15

\* the offsets at and around 0, 0.001, the radius of the rod and of the cone
FineOffsets ==
    {o \in {l + d : l \in {0, Fine(epsilon), Fine(BASE_ROD_RADIUS), Fine(BASE_CONE_RADIUS)},
                    d \in -NFine..NFine} : o >= 0}

ParallelInit ==
    /\ NoSlice
    /\ NothingLoaded
    /\ NothingRotated
    /\ callee = "none"
    /\ argument \in FineOffsets
    /\ returned = <<>>

CallParallelBranch ==
    /\ ~showArrows
    /\ Called("parallel", ParallelBranch(argument))

MarkerInit == ArrowInit \/ ParallelInit

ShowMarkers == showArrows /\ CrossSection2D

MarkerNext == ShowMarkers \/ CallParallelBranch

MarkerSpec == MarkerInit /\ [][MarkerNext]_vars

\* how many entries of the list have one of the types
OfTypes(list, types) == Cardinality({n \in 1..Len(list) : list[n].type \in types})

\* at most one rectangle and at most one cone shape, and nothing else
RodAndCone(list) ==
    /\ OfTypes(list, {"rectangle"}) <= 1
    /\ OfTypes(list, {"triangle", "hyperbola"}) <= 1
    /\ OfTypes(list, {"rectangle", "triangle", "hyperbola"}) = Len(list)

\* one rectangle and one cone shape
Both(list) ==
    /\ OfTypes(list, {"rectangle"}) = 1
    /\ OfTypes(list, {"triangle", "hyperbola"}) = 1

\* the half height of the chord of the rod at the offset is above eps
ChordAbove(offset, radius, eps) == radius * radius - offset * offset > eps * eps

\* at most 2 slices for each marker and 12 in all, one ellipse at most for a
\* marker at an angle, a rectangle and a cone shape at most for a parallel one
AtMostTwoEach ==
    Shown =>
        /\ SlicesAreOfMarkers
        /\ Len(arrowSlices) <= 12
        /\ \A m \in Markers :
              /\ Len(SlicesOf(m)) <= 2
              /\ Angled(m) => /\ Len(SlicesOf(m)) <= 1
                              /\ OfTypes(SlicesOf(m), {"ellipse"}) = Len(SlicesOf(m))
              /\ ~Angled(m) => RodAndCone(SlicesOf(m))

\* C28 as stated: at most 2 slices per marker and 12 in total, at most one
\* ellipse for a marker in the angled case, at most one rectangle and one cone
\* shape for a marker in the parallel case, and both of them whenever zOffset
\* is below the radius of the rod, 0.04.
C28_BothBelowRodRadius ==
    /\ AtMostTwoEach
    /\ Shown =>
          \A m \in Markers :
              (~Angled(m) /\ zOffset(Geometry(m), zSlice) < BASE_ROD_RADIUS)
                  => Both(SlicesOf(m))
    /\ callee = "parallel" =>
          /\ RodAndCone(returned)
          /\ argument < Fine(BASE_ROD_RADIUS) => Both(returned)

\* C28: at most 2 slices per marker and 12 in total, at most one ellipse for
\* a marker in the angled case, at most one rectangle and one cone shape for
\* a marker in the parallel case; both of them whenever the chord of the rod
\* at zOffset has a half height above 0.001, that is zOffset below
\* sqrt(0.04^2 - 0.001^2); from there up to 0.04 the cone shape alone.
C28_BothWhereChordIsHigh ==
    /\ AtMostTwoEach
    /\ Shown =>
          \A m \in Markers :
              (/\ ~Angled(m)
               /\ zOffset(Geometry(m), zSlice) < BASE_ROD_RADIUS
               /\ ChordAbove(zOffset(Geometry(m), zSlice), BASE_ROD_RADIUS, epsilon))
                  => Both(SlicesOf(m))
    /\ callee = "parallel" =>
          /\ RodAndCone(returned)
          /\ (/\ argument < Fine(BASE_ROD_RADIUS)
              /\ ChordAbove(argument, Fine(BASE_ROD_RADIUS), Fine(epsilon)))
                 => Both(returned)
          /\ (/\ argument < Fine(BASE_ROD_RADIUS)
              /\ ~ChordAbove(argument, Fine(BASE_ROD_RADIUS), Fine(epsilon)))
                 => /\ Len(returned) = 1
                    /\ returned[1].type = "hyperbola"

\* a parallel marker cut just inside the radius of its rod: the hyperbola of
\* the cone and no rectangle
C28_Witness ==
    /\ callee = "parallel"
    /\ argument < Fine(BASE_ROD_RADIUS)
    /\ Len(returned) = 1
    /\ returned[1].type = "hyperbola"

---------------------------------------------------------------------------
(* Scene2: the projection of a rotated vertex of the catalog *)

ROTATION_MODES ==
    << [xw |-> TRUE,  yw |-> FALSE, zw |-> FALSE],
       [xw |-> FALSE, yw |-> TRUE,  zw |-> FALSE],
       [xw |-> FALSE, yw |-> FALSE, zw |-> TRUE],
       [xw |-> TRUE,  yw |-> TRUE,  zw |-> FALSE],
       [xw |-> TRUE,  yw |-> FALSE, zw |-> TRUE],
       [xw |-> FALSE, yw |-> TRUE,  zw |-> TRUE],
       [xw |-> TRUE,  yw |-> TRUE,  zw |-> TRUE] >>

\* the coordinate (a + b * sqrt 5) / Den as a length
Length(x) == RoundDiv(x[1] * One + x[2] * Sqrt(5 * One * One), Den)

\* sqrt(scaleSq.num / scaleSq.den) of a list whose squared lengths are
\* rational, as a length
ScaleOf(vs) ==
    Sqrt(((vs.scaleSq.num[1] * (One \div Den) * (One \div Den))
              \div vs.scaleSq.den[1]) * Den * Den)

\* the vertices of a polytope as Scene2 reads them
Vec4Of(vs) ==
    {[k \in 1..4 |-> Mul(Length(vs.coords[n][k]), ScaleOf(vs))] :
        n \in 1..Len(vs.coords)}

\* the vertices of the 5-cell, the 8-cell, the 16-cell and the 24-cell; the
\* axis vertices of the 600-cell are those of the 16-cell and the first
\* vertices of the 120-cell are those of the 24-cell
FrameVertices ==
    Vec4Of(makeFiveCell.vertices) \cup Vec4Of(makeTesseract.vertices)
    \cup Vec4Of(makeSixteenCell.vertices) \cup Vec4Of(makeTwentyFourCell.vertices)

\* the rotations of useFrame's map callback
Turned(v, mode, angles) ==
    LET inXW == IF mode.xw THEN rotateXW(v, Angles[angles.xw]) ELSE v
        inYW == IF mode.yw THEN rotateYW(inXW, Angles[angles.yw]) ELSE inXW
    IN  IF mode.zw THEN rotateZW(inYW, Angles[angles.zw]) ELSE inYW

\* 1 / 0 is Infinity, and a coordinate times Infinity is not a finite number
NotFinite == <<>>

project4Dto3D(v, distance) ==
    LET divisor == distance - v[4]
    IN  [rotated |-> v, distance |-> distance, divisor |-> divisor,
         point |-> IF divisor = 0 THEN NotFinite
                   ELSE <<RoundDiv(v[1] * One, divisor),
                          RoundDiv(v[2] * One, divisor),
                          RoundDiv(v[3] * One, divisor)>>]

ProjectInit ==
    /\ NoSlice
    /\ NothingLoaded
    /\ NothingRotated
    /\ callee = "none"
    /\ argument \in [vertex : FrameVertices, rotationMode : 1..Len(ROTATION_MODES),
                     xw : 1..NAngles, yw : 1..NAngles, zw : 1..NAngles]
    /\ returned = <<>>

CallProject ==
    Called("project4Dto3D",
           project4Dto3D(Turned(argument.vertex, ROTATION_MODES[argument.rotationMode],
                                argument),
                         4 * One))

ProjectNext == CallProject

ProjectSpec == ProjectInit /\ [][ProjectNext]_vars

Norm4Sq(v) == v[1] * v[1] + v[2] * v[2] + v[3] * v[3] + v[4] * v[4]

\* how far a squared length of up to 2 * 2 may move in three rotations: the
\* length itself by less than a thousandth
NormSlack == 4 * One * (One \div 1000)

---------------------------------------------------------------------------
(* Scene2: the writes of one frame into the preallocated buffers *)

MAX_VERTICES == 600

MAX_EDGES == 1200

MAX_FACE_TRIS == 2200

\* the instances projected.forEach sets with setMatrixAt, counted from 0
VertexWrites(polytope) == 0..(Len(polytope.vertices.coords) - 1)

\* the instances polytope.edges.forEach sets with setMatrixAt
EdgeWrites(polytope) == 0..(Len(polytope.edges) - 1)

\* a variant that writes a triangle for every vertex of a face
FanTriangles_PerVertex(faces) ==
    UNION {{<<f, i>> : i \in 1..Len(faces[f])} : f \in 1..Len(faces)}

\* the passes of the inner loop over the faces, triIdx++ in each: the face
\* and i from 1 below face.length - 1
FanTriangles(faces) ==
    UNION {{<<f, i>> : i \in 1..(Len(faces[f]) - 2)} : f \in 1..Len(faces)}

\* the entries of arr written: nine from triIdx * 9 on for every triangle
PositionWrites(polytope) == 0..(9 * Cardinality(FanTriangles(polytope.faces)) - 1)

\* new Float32Array(MAX_FACE_TRIS * 3 * 3)
PositionsLength == MAX_FACE_TRIS * 3 * 3

\* C30: for every polytope of the catalog the instances written for its
\* vertices are below MAX_VERTICES, those written for its edges below
\* MAX_EDGES, the fan triangles of its faces are MAX_FACE_TRIS at most and
\* the positions written lie within the preallocated array.
C30_WritesStayInBuffers ==
    \A solidIndex \in 1..Len(POLYTOPES_4D) :
        LET polytope == POLYTOPES_4D[solidIndex]
        IN  /\ VertexWrites(polytope) \subseteq 0..(MAX_VERTICES - 1)
            /\ EdgeWrites(polytope) \subseteq 0..(MAX_EDGES - 1)
            /\ Cardinality(FanTriangles(polytope.faces)) <= MAX_FACE_TRIS
            /\ PositionWrites(polytope) \subseteq 0..(PositionsLength - 1)

\* the whole catalog: the 120-cell fills both instance buffers, the 8-cell
\* has two triangles a face and the 600-cell one
C30_Witness ==
    /\ Loaded
    /\ VertexWrites(POLYTOPES_4D[5]) = 0..(MAX_VERTICES - 1)
    /\ EdgeWrites(POLYTOPES_4D[5]) = 0..(MAX_EDGES - 1)
    /\ PositionWrites(POLYTOPES_4D[5]) = {}
    /\ Cardinality(FanTriangles(POLYTOPES_4D[2].faces)) = 2 * 24
    /\ Cardinality(FanTriangles(POLYTOPES_4D[6].faces)) = 1200

===========================================================================
